---------------------------- MODULE Spec2Model ----------------------------
(***************************************************************************)
(* A model of the sampling profiler core of ext/vernier/vernier.cc.        *)
(*                                                                         *)
(* The module holds several specifications over one set of variables:      *)
(*   Spec           the time-sampling collectors: start(), stop(), the     *)
(*                  sampler threads, the capture handshake and the         *)
(*                  lifecycle callbacks                                    *)
(*   LiveSpec       the same in a process that loses no signal, with the   *)
(*                  fairness of its threads                                *)
(*   SpecTree       a FrameList (the stack tree) under stack_index calls   *)
(*   SpecTranslate  a SampleTranslator over a FrameList                    *)
(*                                                                         *)
(*   SpecSamples    a SampleList under record_sample calls                 *)
(*   SpecThread     a ThreadTable under lifecycle notifications, with the  *)
(*                  markers and timestamps of its Thread records           *)
(*   SpecSchedule   the loop of sample_thread_run against the clock, with  *)
(*                  no thread to sample                                    *)
(*   SpecTick       the same loop over the ThreadTable that a few          *)
(*                  lifecycle notifications have made                      *)
(*   SpecGC         the GCMarkerTable of a collector under the GC events   *)
(*   SpecMutex      the ThreadTable under its mutex: the ticks of the      *)
(*                  sampler thread and the set_state calls of two Ruby     *)
(*                  threads, step by step                                  *)
(*   SpecMarkerMutex  the appends to gc_markers and the mutex of the table *)
(*                                                                         *)
(* A specification leaves the variables of the other parts unchanged.      *)
(***************************************************************************)
EXTENDS Integers, Sequences, FiniteSets, TLC

(***************************************************************************)
(* Bounds of the model.                                                    *)
(***************************************************************************)
\* RawSample::MAX_LEN is 2048 in the source; the model keeps the capacity
\* small.
MAX_LEN == 3
\* stack_node_list never grows beyond MaxNodes nodes in the model
MaxNodes == 3

VARIABLES
    \* ---- FrameList (one collector's frame_list)
    root_stack_node,    \* FrameList::root_stack_node
    stack_node_list,    \* FrameList::stack_node_list (position i+1 holds index i)
    \* ---- SampleTranslator instances (one per observed thread)
    translator,         \* translator[t]: frames, frame_indexes, len, last_stack_index
    \* ---- history of the calls made on the tree
    returned,           \* {<<stack, index>>}: what stack_index has returned
    last_call,          \* the most recent call: operation, sample, result
    \* ---- GlobalSignalHandler (process-wide) and the SIGPROF machinery
    mutex,              \* GlobalSignalHandler::mutex: 0, or the collector whose
                        \* sampler thread holds it
    count,              \* GlobalSignalHandler::count
    sigaction,          \* the disposition of SIGPROF
    live_sample,        \* GlobalSignalHandler::live_sample: 0 (NULL), or the
                        \* collector whose sampler's LiveSample it points to
    pending,            \* pending[th]: a SIGPROF is pending for native thread th
    handler,            \* handler[th]: where signal_handler is on thread th
    handler_sample,     \* handler_sample[th]: the LiveSample* the handler read
    \* ---- TimeCollector instances
    base_running,       \* BaseCollector::running
    running,            \* TimeCollector::running (atomic_bool)
    thread_stopped,     \* TimeCollector::thread_stopped (semaphore count)
    hooks,              \* the three event hooks of the collector are added
    threads,            \* ThreadTable::list: state and pthread_id per thread
    threads_mutex,      \* ThreadTable::mutex is held (by the sampler thread)
    frame_list,         \* what the collector's FrameList holds, in outline
    api,                \* where the start() or stop() call on the collector is
    api_caller,         \* the Ruby thread that made that call
    api_result,         \* what the last call made by the Ruby thread returned
    \* ---- the sampler thread of each collector (sample_thread_run)
    sampler,            \* where the sampler thread is
    iter,               \* the position in threads.list of the for loop
    raw_sample,         \* LiveSample::sample of the sampler's LiveSample
    sem_complete,       \* LiveSample::sem_complete (semaphore count)
    ts_passed,          \* the ts computed by the sampler's wait() has passed
    \* ---- the process
    vm_thread,          \* what each Ruby thread is doing, as the VM knows it
    crashed,            \* an assertion failed or rb_bug was called
    \* ---- history
    installed,          \* the collectors holding an install() not yet undone
    capture_trace,      \* the events of the sampler's capture in this tick
    ticks_after_stop,   \* the ticks begun since the stop() in progress cleared
                        \* running
    \* ---- the monotonic clock
    clock,              \* what TimeStamp::Now() returns, in clock units
    \* ---- a SampleList
    sample_list,        \* the parallel vectors stacks, timestamps, threads,
                        \* categories, weights: one record per position
    recorded,           \* history: the record_sample calls made on it
    \* ---- a ThreadTable with whole Thread records
    thread_table,       \* ThreadTable::list
    fed,                \* history: the notifications the table was given
    \* ---- sample_thread_run, by its clock and its thread table
    loop_pc,            \* where the sampler thread is in its loop
    loop_iter,          \* the position in threads.list of the for loop
    interval,           \* TimeCollector::interval
    next_sample_schedule,
    sample_start,
    sample_complete,
    tick_log,           \* history: start, completion and schedule of the ticks
    visits,             \* history: what the tick in progress did per thread
    \* ---- TimeCollector::gc_markers
    gc_markers,         \* GCMarkerTable: list and last_gc_entry
    gc_fed,             \* history: the GC events the collector was given
    \* ---- the mutexes of the tables and the calls that take them
    table_mutex,        \* ThreadTable::mutex: 0, or the thread that holds it
    set_state_call,     \* set_state_call[th]: where the ThreadTable::set_state
                        \* that thread th is in stands, and its new_state
    marker_mutex,       \* MarkerTable::mutex of gc_markers: 0, or its holder
    gc_call,            \* where the internal_gc_event_cb in progress stands
    callback            \* callback[th]: where the internal_thread_event_cb
                        \* calls that Ruby thread th makes for an event stand

treeVars == <<root_stack_node, stack_node_list, translator, returned, last_call>>

signalVars == <<mutex, count, sigaction, live_sample, pending, handler,
                handler_sample>>

collectorVars == <<base_running, running, thread_stopped, hooks, threads,
                   threads_mutex, frame_list, api, api_caller, api_result>>

samplerVars == <<sampler, iter, raw_sample, sem_complete, ts_passed>>

historyVars == <<installed, capture_trace, ticks_after_stop>>

profilerVars == <<signalVars, collectorVars, samplerVars, vm_thread, crashed,
                  historyVars>>

sampleListVars == <<sample_list, recorded>>

\* the parts of the profiler that have a specification of their own
threadVars == <<thread_table, fed>>

loopVars == <<loop_pc, loop_iter, interval, next_sample_schedule, sample_start,
              sample_complete, tick_log, visits>>

gcVars == <<gc_markers, gc_fed>>

lockVars == <<table_mutex, set_state_call, marker_mutex, gc_call, callback>>

componentVars == <<clock, sampleListVars, threadVars, loopVars, gcVars,
                   lockVars>>

vars == <<treeVars, profilerVars, componentVars>>

(***************************************************************************)
(* Frame: a call-site VALUE and a line (struct Frame).                     *)
(***************************************************************************)
\* the call sites the stack walker reports in the model: two lines of one
\* method, which are two Frames
Frame == { [frame |-> 1, line |-> 1], [frame |-> 1, line |-> 2] }

\* the Frame an uninitialised or root slot holds: Frame{0, 0}
NullFrame == [frame |-> 0, line |-> 0]

\* operator== on Frame: both fields match
FrameEq(lhs, rhs) == lhs.frame = rhs.frame /\ lhs.line = rhs.line

(***************************************************************************)
(* RawSample: frames[] and lines[] as rb_profile_frames fills them, the    *)
(* innermost frame first; len; and the "captured during GC" flag.          *)
(***************************************************************************)
EmptySample == [frames |-> <<>>, lines |-> <<>>, len |-> 0, gc |-> FALSE]

\* every RawSample that RawSample::sample() can leave behind:
\*   not a native thread:  len = 0, gc = false
\*   during GC:            len = 0, gc = true
\*   otherwise:            len = rb_profile_frames(...), 0..MAX_LEN frames
RawSamples ==
    { [frames |-> [i \in 1..Len(st) |-> st[i].frame],
       lines |-> [i \in 1..Len(st) |-> st[i].line],
       len |-> Len(st), gc |-> FALSE] :
        st \in UNION { [1..n -> Frame] : n \in 0..MAX_LEN } }
    \cup { [frames |-> <<>>, lines |-> <<>>, len |-> 0, gc |-> TRUE] }

\* RawSample::size
size(sample) == sample.len

never_empty(sample) == FALSE

\* RawSample::empty
empty(sample) == sample.len = 0

\* RawSample::frame(i): the i-th frame counted from the root of the stack,
\* i in 0..len-1 (idx = len - i - 1 is the 0-based position in frames[]).
frame(sample, i) ==
    LET idx == sample.len - i - 1
    IN  [frame |-> sample.frames[idx + 1], line |-> sample.lines[idx + 1]]

\* the root-to-leaf Frame sequence of a sample
StackOf(sample) == [i \in 1..sample.len |-> frame(sample, i - 1)]

(***************************************************************************)
(* FrameList: the stack tree.                                              *)
(* A StackNode is [children, frame, parent, index]; children maps the      *)
(* Frames that have a child node to that node's index.                     *)
(***************************************************************************)
\* StackNode(): the root
RootNode == [children |-> <<>>, frame |-> NullFrame, parent |-> -1, index |-> -1]

\* the FrameList as one value, for the operators below
FL == [root |-> root_stack_node, list |-> stack_node_list]

\* the node a StackNode* points to: the root when the index is -1
NodeAt(fl, idx) == IF idx = -1 THEN fl.root ELSE fl.list[idx + 1]

\* node->children.find(frame) != end
HasChild(node, fr) == \E k \in DOMAIN node.children : FrameEq(k, fr)

ChildOf(node, fr) == node.children[CHOOSE k \in DOMAIN node.children : FrameEq(k, fr)]

\* node->children[frame] = idx
WithChild(node, fr, idx) ==
    [node EXCEPT !.children =
        [k \in (DOMAIN node.children) \cup {fr} |->
            IF k = fr THEN idx ELSE node.children[k]]]

\* a mutant of next_stack_node: it never looks the frame up and always
\* inserts a node
next_stack_node_always_insert(fl, nodeIdx, fr) ==
    LET node == NodeAt(fl, nodeIdx)
        next_node_idx == Len(fl.list)
        parent2 == WithChild(node, fr, next_node_idx)
        fresh == [children |-> <<>>, frame |-> fr, parent |-> node.index,
                  index |-> next_node_idx]
        list1 == IF nodeIdx = -1 THEN fl.list
                 ELSE [fl.list EXCEPT ![nodeIdx + 1] = parent2]
    IN  [fl |-> [root |-> IF nodeIdx = -1 THEN parent2 ELSE fl.root,
                 list |-> Append(list1, fresh)],
         node |-> next_node_idx]

\* a mutant of next_stack_node: the node it inserts is made with the index
\* and the parent in each other's place
next_stack_node_swapping_index_and_parent(fl, nodeIdx, fr) ==
    LET node == NodeAt(fl, nodeIdx)
    IN  IF ~HasChild(node, fr)
        THEN LET next_node_idx == Len(fl.list)
                 parent2 == WithChild(node, fr, next_node_idx)
                 fresh == [children |-> <<>>, frame |-> fr,
                           parent |-> next_node_idx, index |-> node.index]
                 list1 == IF nodeIdx = -1 THEN fl.list
                          ELSE [fl.list EXCEPT ![nodeIdx + 1] = parent2]
             IN  [fl |-> [root |-> IF nodeIdx = -1 THEN parent2 ELSE fl.root,
                          list |-> Append(list1, fresh)],
                  node |-> next_node_idx]
        ELSE [fl |-> fl, node |-> ChildOf(node, fr)]

\* FrameList::next_stack_node(node, frame): the child of node for frame,
\* inserted at the end of stack_node_list when there is none.  Returns the
\* FrameList after the call and the index of the node returned.
next_stack_node(fl, nodeIdx, fr) ==
    LET node == NodeAt(fl, nodeIdx)
    IN  IF ~HasChild(node, fr)
        THEN LET next_node_idx == Len(fl.list)
                 parent2 == WithChild(node, fr, next_node_idx)
                 fresh == [children |-> <<>>, frame |-> fr, parent |-> node.index,
                           index |-> next_node_idx]
                 list1 == IF nodeIdx = -1 THEN fl.list
                          ELSE [fl.list EXCEPT ![nodeIdx + 1] = parent2]
             IN  [fl |-> [root |-> IF nodeIdx = -1 THEN parent2 ELSE fl.root,
                          list |-> Append(list1, fresh)],
                  node |-> next_node_idx]
        ELSE [fl |-> fl, node |-> ChildOf(node, fr)]

\* the loop "for (; i < stack.size(); i++) node = next_stack_node(node, frame(i))"
\* of stack_index, from position i at node nodeIdx
RECURSIVE WalkFrom(_, _, _, _)
WalkFrom(fl, nodeIdx, sample, i) ==
    IF i >= size(sample) THEN [fl |-> fl, node |-> nodeIdx]
    ELSE LET r == next_stack_node(fl, nodeIdx, frame(sample, i))
         IN  WalkFrom(r.fl, r.node, sample, i + 1)

\* the value that stands for "throw std::runtime_error" in a result
Thrown == -2

\* FrameList::stack_index(stack): throws on an empty stack, else walks from
\* the root and returns node->index
stack_index(fl, stack) ==
    IF empty(stack) THEN [fl |-> fl, index |-> Thrown]
    ELSE LET r == WalkFrom(fl, -1, stack, 0)
         IN  [fl |-> r.fl, index |-> NodeAt(r.fl, r.node).index]

(***************************************************************************)
(* SampleTranslator                                                        *)
(***************************************************************************)
\* SampleTranslator(): len(0), last_stack_index(-1); frames[] and
\* frame_indexes[] are not initialised and are never read at or beyond len.
NewTranslator ==
    [frames |-> [i \in 0..(MAX_LEN - 1) |-> NullFrame],
     frame_indexes |-> [i \in 0..(MAX_LEN - 1) |-> -1],
     len |-> 0,
     last_stack_index |-> -1]

\* a mutant of ReusedPrefixStep: the cached prefix is reused by length
\* alone, without comparing the frames
ReusedPrefixByLength(tr, sample, i) ==
    IF i < tr.len /\ i < size(sample) THEN i + 1 ELSE i

\* the first loop of translate: one step from i; the loop ends at the first
\* i with i >= len, i >= sample.size() or frames[i] != sample.frame(i)
ReusedPrefixStep(tr, sample, i) ==
    IF i < tr.len /\ i < size(sample) /\ FrameEq(tr.frames[i], frame(sample, i))
    THEN i + 1 ELSE i

RECURSIVE ReusedPrefix(_, _, _)
ReusedPrefix(tr, sample, i) ==
    LET j == ReusedPrefixStep(tr, sample, i)
    IN  IF j = i THEN i ELSE ReusedPrefix(tr, sample, j)

\* the second loop of translate, from position i at node nodeIdx: walks the
\* tree and stores frames[i] and frame_indexes[i]
RECURSIVE TranslateFrom(_, _, _, _, _)
TranslateFrom(fl, tr, nodeIdx, sample, i) ==
    IF i >= size(sample) THEN [fl |-> fl, tr |-> tr, node |-> nodeIdx, i |-> i]
    ELSE LET fr == frame(sample, i)
             r == next_stack_node(fl, nodeIdx, fr)
             tr2 == [tr EXCEPT !.frames[i] = fr,
                               !.frame_indexes[i] = NodeAt(r.fl, r.node).index]
         IN  TranslateFrom(r.fl, tr2, r.node, sample, i + 1)

\* SampleTranslator::translate(frame_list, sample)
translate(fl, tr, sample) ==
    LET i0 == ReusedPrefix(tr, sample, 0)
        node0 == IF i0 = 0 THEN -1 ELSE tr.frame_indexes[i0 - 1]
        r == TranslateFrom(fl, tr, node0, sample, i0)
        idx == NodeAt(r.fl, r.node).index
    IN  [fl |-> r.fl,
         tr |-> [r.tr EXCEPT !.len = r.i, !.last_stack_index = idx],
         index |-> idx]

(***************************************************************************)
(* The time-sampling collectors.                                           *)
(*                                                                         *)
(* Collectors are the TimeCollector instances of the process, RubyThreads  *)
(* the Ruby threads; a Ruby thread is named by the same number as its      *)
(* native thread (pthread_t), and 0 is no thread.                          *)
(***************************************************************************)
Collectors == {1, 2}
RubyThreads == {1}

\* Thread::State
STARTED == "STARTED"
RUNNING == "RUNNING"
READY == "READY"
SUSPENDED == "SUSPENDED"
STOPPED == "STOPPED"
ThreadStates == {STARTED, RUNNING, READY, SUSPENDED, STOPPED}

\* What RawSample::sample() can leave in a RawSample: no frame (not a native
\* Ruby thread, or rb_profile_frames found none), the gc flag, or a stack.
SampleKinds == {"empty", "gc", "stack"}

\* ticks_after_stop stops counting here
MaxTicksAfterStop == 2

InitProfiler ==
    /\ mutex = 0
    /\ count = 0
    /\ sigaction = "SIG_DFL"
    /\ live_sample = 0
    /\ pending = [th \in RubyThreads |-> FALSE]
    /\ handler = [th \in RubyThreads |-> 0]
    /\ handler_sample = [th \in RubyThreads |-> 0]
    /\ base_running = [c \in Collectors |-> FALSE]
    /\ running \in [Collectors -> BOOLEAN]
    /\ thread_stopped = [c \in Collectors |-> 0]
    /\ hooks = [c \in Collectors |-> FALSE]
    /\ threads = [c \in Collectors |-> <<>>]
    /\ threads_mutex = [c \in Collectors |-> FALSE]
    /\ frame_list = [c \in Collectors |-> "empty"]
    /\ api = [c \in Collectors |-> "idle"]
    /\ api_caller = [c \in Collectors |-> 0]
    /\ api_result = [th \in RubyThreads |-> "none"]
    /\ sampler = [c \in Collectors |-> "none"]
    /\ iter = [c \in Collectors |-> 0]
    /\ raw_sample = [c \in Collectors |-> "empty"]
    /\ sem_complete = [c \in Collectors |-> 0]
    /\ ts_passed = [c \in Collectors |-> FALSE]
    /\ vm_thread = [th \in RubyThreads |-> "running"]
    /\ crashed = FALSE
    /\ installed = {}
    /\ capture_trace = [c \in Collectors |-> <<>>]
    /\ ticks_after_stop = [c \in Collectors |-> 0]

\* the Ruby threads whose notifications reach one ThreadTable
TableThreads == {1, 2}

\* no ThreadTable::set_state in progress on a thread
NoSetState == [pc |-> "idle", new_state |-> "none"]

\* no internal_gc_event_cb in progress
NoGCCall == [pc |-> "idle", event |-> "none"]

\* the components at rest at the instant now: nothing recorded, the sampler
\* thread of a collector with interval i and thread table list not yet in
\* its loop
\* the thread is in no internal_thread_event_cb
NoCallback == [pc |-> "idle", event |-> "none", c |-> 0, todo |-> {}]

ComponentsAtRest(now, i, list) ==
    /\ clock = now
    /\ sample_list = <<>>
    /\ recorded = <<>>
    /\ thread_table = list
    /\ fed = <<>>
    /\ loop_pc = "entry"
    /\ loop_iter = 0
    /\ interval = i
    /\ next_sample_schedule = 0
    /\ sample_start = 0
    /\ sample_complete = 0
    /\ tick_log = <<>>
    /\ visits = <<>>
    /\ gc_markers = [list |-> <<>>, last_gc_entry |-> 0]
    /\ gc_fed = <<>>
    /\ table_mutex = 0
    /\ set_state_call = [th \in TableThreads |-> NoSetState]
    /\ marker_mutex = 0
    /\ gc_call = NoGCCall
    /\ callback = [th \in RubyThreads |-> NoCallback]

\* the clock reads 1, some time after boot
InitComponents == ComponentsAtRest(1, 1, <<>>)

(***************************************************************************)
(* SpecTree: one FrameList used by direct stack_index calls                *)
(* (CustomCollector::sample, RetainedCollector::record) and by the         *)
(* translators of the observed threads (TimeCollector::record_sample,      *)
(* ThreadTable::set_state).                                                *)
(***************************************************************************)
Translators == {1}

NoCall == [op |-> "none", index |-> -1, fresh_before |-> -1,
           fresh_after |-> -1, case |-> "none"]

\* the length of the longest common prefix of two sequences
RECURSIVE CommonPrefixLen(_, _)
CommonPrefixLen(a, b) ==
    IF a = <<>> \/ b = <<>> \/ Head(a) # Head(b) THEN 0
    ELSE 1 + CommonPrefixLen(Tail(a), Tail(b))

\* the stack a translator holds in its cache: frames[0 .. len-1]
Cached(tr) == [i \in 1..tr.len |-> tr.frames[i - 1]]

\* how a new stack relates to the one the translator saw before
CaseOf(prev, new) ==
    LET k == CommonPrefixLen(prev, new)
    IN  IF new = prev THEN "equal"
        ELSE IF k = Len(new) THEN "prefix"
        ELSE IF k = Len(prev) THEN "extension"
        ELSE IF k = 0 THEN "disjoint"
        ELSE "diverging"

InitTree ==
    /\ root_stack_node = RootNode
    /\ stack_node_list = <<>>
    /\ translator = [t \in Translators |-> NewTranslator]
    /\ returned = {}
    /\ last_call = NoCall

Init == InitTree /\ InitProfiler /\ InitComponents

\* the start of a process in which no collector is ever started
InitNoCollector == Init /\ \A c \in Collectors : ~running[c]

\* a call of frame_list.stack_index(sample)
StackIndexCall(sample) ==
    \E r \in {stack_index(FL, sample)} :
        /\ Len(r.fl.list) <= MaxNodes
        /\ root_stack_node' = r.fl.root
        /\ stack_node_list' = r.fl.list
        /\ last_call' = [op |-> "stack_index", index |-> r.index,
                         fresh_before |-> r.index,
                         fresh_after |-> stack_index(r.fl, sample).index,
                         case |-> IF \E p \in returned : p[1] = StackOf(sample)
                                  THEN "repeat" ELSE "first"]
        /\ UNCHANGED translator

\* a call of translator[t].translate(frame_list, sample)
TranslateCall(t, sample) ==
    \E r \in {translate(FL, translator[t], sample)} :
        /\ Len(r.fl.list) <= MaxNodes
        /\ root_stack_node' = r.fl.root
        /\ stack_node_list' = r.fl.list
        /\ translator' = [translator EXCEPT ![t] = r.tr]
        /\ last_call' = [op |-> "translate", index |-> r.index,
                         fresh_before |-> stack_index(FL, sample).index,
                         fresh_after |-> stack_index(r.fl, sample).index,
                         case |-> CaseOf(Cached(translator[t]), StackOf(sample))]

\* a FrameList of a CustomCollector or RetainedCollector: stack_index calls,
\* with the history of what they returned
NextTree ==
    \E sample \in RawSamples :
        /\ StackIndexCall(sample)
        /\ returned' = IF empty(sample) THEN returned
                       ELSE returned \cup {<<StackOf(sample), last_call'.index>>}
        /\ UNCHANGED <<profilerVars, componentVars>>

SpecTree == InitNoCollector /\ [][NextTree]_vars

\* one SampleTranslator over a FrameList that other callers walk as well
NextTranslate ==
    /\ \/ \E t \in Translators, sample \in RawSamples : TranslateCall(t, sample)
       \/ \E sample \in RawSamples : StackIndexCall(sample)
    /\ UNCHANGED returned
    /\ UNCHANGED <<profilerVars, componentVars>>

SpecTranslate == InitNoCollector /\ [][NextTranslate]_vars

(***************************************************************************)
(* Properties of the stack tree                                            *)
(***************************************************************************)
\* the indices of the nodes on the path from the root to node idx
RECURSIVE NodePath(_, _)
NodePath(fl, idx) ==
    IF idx = -1 THEN <<>>
    ELSE Append(NodePath(fl, fl.list[idx + 1].parent), idx)

\* C9: stack_index is deterministic: calls with the same root-to-leaf Frame
\* sequence returned the same node index, and calls whose stacks have a
\* longest common prefix of k frames (they first differ at position k)
\* returned nodes whose root-to-node paths share exactly their first k nodes.
C9_StackIndexDeterministic ==
    \A a \in returned, b \in returned :
        IF a[1] = b[1] THEN a[2] = b[2]
        ELSE CommonPrefixLen(NodePath(FL, a[2]), NodePath(FL, b[2]))
                = CommonPrefixLen(a[1], b[1])

\* a stack was passed to stack_index a second time, and two stacks that
\* were passed share their first k >= 1 frames and then differ
C9_Witness ==
    /\ last_call.op = "stack_index"
    /\ last_call.case = "repeat"
    /\ \E a \in returned, b \in returned :
          LET k == CommonPrefixLen(a[1], b[1])
          IN  k >= 1 /\ Len(a[1]) > k /\ Len(b[1]) > k

Thread_set_state_without_asserts(thread, new_state, self) ==
    IF thread.state = STOPPED
      THEN [thread |-> thread, ok |-> TRUE]
    ELSE IF new_state = SUSPENDED /\ thread.state = new_state
      THEN [thread |-> thread, ok |-> TRUE]
    ELSE IF new_state = STARTED
      THEN [thread |-> thread, ok |-> TRUE]
    ELSE IF new_state = RUNNING
      THEN [thread |-> [thread EXCEPT !.state = new_state, !.pthread_id = self],
            ok |-> TRUE]
    ELSE [thread |-> [thread EXCEPT !.state = new_state], ok |-> TRUE]

Thread_set_state(thread, new_state, self) ==
    IF thread.state = STOPPED
      THEN [thread |-> thread, ok |-> TRUE]
    ELSE IF new_state = SUSPENDED /\ thread.state = new_state
      THEN [thread |-> thread, ok |-> TRUE]
    ELSE IF new_state = STARTED
      THEN [thread |-> thread, ok |-> TRUE]
    ELSE IF new_state = RUNNING
      THEN [thread |-> [thread EXCEPT !.state = new_state, !.pthread_id = self],
            ok |-> thread.state \in {READY, RUNNING}]
    ELSE IF new_state = READY
      THEN [thread |-> [thread EXCEPT !.state = new_state],
            ok |-> thread.state \in {STARTED, SUSPENDED, RUNNING}]
    ELSE \* SUSPENDED or STOPPED
           [thread |-> [thread EXCEPT !.state = new_state],
            ok |-> thread.state \in {RUNNING, STARTED, SUSPENDED}]

\* a mutant of pthread_id_after: the handle is cleared whatever the state
pthread_id_always_cleared(state, self) == 0

\* ThreadTable::set_state after thread.set_state(new_state): the handle of
\* the calling thread if the record is RUNNING, or else 0
pthread_id_after(state, self) == IF state = RUNNING THEN self ELSE 0

thread_never_equal(list, th) == 0

\* the position of ruby thread th in list, 0 if it has no record
ThreadPos(list, th) ==
    IF \E i \in 1..Len(list) : list[i].ruby_thread = th
      THEN CHOOSE i \in 1..Len(list) :
               /\ list[i].ruby_thread = th
               /\ \A j \in 1..(i - 1) : list[j].ruby_thread # th
      ELSE 0

ThreadTable_set_state(list, new_state, th, self) ==
    IF ThreadPos(list, th) # 0
      THEN LET i == ThreadPos(list, th)
               r == Thread_set_state(list[i], new_state, self)
               t == [r.thread EXCEPT !.pthread_id =
                        pthread_id_after(r.thread.state, self)]
           IN  [list |-> [list EXCEPT ![i] = t], ok |-> r.ok]
      ELSE [list |-> Append(list, [ruby_thread |-> th, state |-> new_state,
                                   pthread_id |-> self]),
            ok |-> TRUE]

(***************************************************************************)
(* GlobalSignalHandler::install and uninstall.  Each takes the mutex for   *)
(* its whole body, so it is one step, taken while nobody holds the mutex.  *)
(***************************************************************************)
install_sets_up(n) == n = 1

uninstall_clears_always(n) == TRUE

\* a mutant of uninstall_clears: the handler is cleared while one other
\* install is still held
uninstall_clears_with_one_left(n) == n <= 1

uninstall_clears(n) == n = 0

install(c) ==
    /\ mutex = 0
    /\ count' = count + 1
    /\ sigaction' = IF install_sets_up(count + 1) THEN "signal_handler"
                    ELSE sigaction
    /\ installed' = installed \cup {c}
    /\ UNCHANGED <<mutex, live_sample>>

uninstall(c) ==
    /\ mutex = 0
    /\ count' = count - 1
    /\ sigaction' = IF uninstall_clears(count - 1) THEN "SIG_IGN" ELSE sigaction
    /\ installed' = installed \ {c}
    /\ UNCHANGED <<mutex, live_sample>>

(***************************************************************************)
(* A Ruby thread th runs Ruby code, and so can call start() or stop(),     *)
(* while it holds the GVL and is not inside the signal handler.  start()   *)
(* and stop() never release the GVL, so while one is in progress the       *)
(* caller makes no other call.                                             *)
(***************************************************************************)
InCall(th) == \E c \in Collectors : api[c] # "idle" /\ api_caller[c] = th

CanCall(th) ==
    ~crashed /\ vm_thread[th] = "running" /\ ~InCall(th) /\ handler[th] = 0

\* the thread inside the call on collector c can take its next step
ApiCanStep(c) == ~crashed /\ api[c] # "idle" /\ handler[api_caller[c]] = 0

ApiUnchanged ==
    UNCHANGED <<treeVars, componentVars, pending, handler, handler_sample, samplerVars,
                vm_thread, capture_trace>>

(***************************************************************************)
(* collector_start and TimeCollector::start, one step per statement that   *)
(* another thread can observe.                                             *)
(***************************************************************************)
\* Ruby thread th calls start on collector c
collector_start(c, th) ==
    /\ api[c] = "idle"
    /\ CanCall(th)
    /\ api' = [api EXCEPT ![c] = "start"]
    /\ api_caller' = [api_caller EXCEPT ![c] = th]
    /\ api_result' = [api_result EXCEPT ![th] = "none"]
    /\ UNCHANGED <<mutex, count, sigaction, live_sample, installed,
                   base_running, running, thread_stopped, hooks, threads,
                   threads_mutex, frame_list, crashed, ticks_after_stop>>
    /\ ApiUnchanged

BaseCollector_start_never_fails(c) == FALSE

\* BaseCollector::start returns false
BaseCollector_start_fails(c) == base_running[c]

\* BaseCollector::start; on false, TimeCollector::start returns false and
\* collector_start raises "already running"
BaseCollector_start(c) ==
    /\ api[c] = "start"
    /\ ApiCanStep(c)
    /\ IF BaseCollector_start_fails(c)
         THEN /\ api' = [api EXCEPT ![c] = "idle"]
              /\ api_result' =
                    [api_result EXCEPT ![api_caller[c]] = "already running"]
              /\ UNCHANGED base_running
         ELSE /\ api' = [api EXCEPT ![c] = "install"]
              /\ base_running' = [base_running EXCEPT ![c] = TRUE]
              /\ UNCHANGED api_result
    /\ UNCHANGED <<mutex, count, sigaction, live_sample, installed, api_caller,
                   running, thread_stopped, hooks, threads, threads_mutex,
                   frame_list, crashed, ticks_after_stop>>
    /\ ApiUnchanged

\* GlobalSignalHandler::get_instance()->install()
start_install(c) ==
    /\ api[c] = "install"
    /\ ApiCanStep(c)
    /\ install(c)
    /\ api' = [api EXCEPT ![c] = "create"]
    /\ UNCHANGED <<api_caller, api_result, base_running, running,
                   thread_stopped, hooks, threads, threads_mutex, frame_list,
                   crashed, ticks_after_stop>>
    /\ ApiUnchanged

\* running = true; pthread_create, which rb_bug()s when it fails
start_pthread_create(c) ==
    /\ api[c] = "create"
    /\ ApiCanStep(c)
    /\ running' = [running EXCEPT ![c] = TRUE]
    /\ \E created \in BOOLEAN :
          IF created
            THEN /\ sampler' = [sampler EXCEPT ![c] = "loop"]
                 /\ api' = [api EXCEPT ![c] = "resumed"]
                 /\ UNCHANGED crashed
            ELSE /\ crashed' = TRUE
                 /\ UNCHANGED <<sampler, api>>
    /\ UNCHANGED <<treeVars, componentVars, signalVars, installed, api_caller, api_result,
                   base_running, thread_stopped, hooks, threads, threads_mutex,
                   frame_list, iter, raw_sample, sem_complete, ts_passed,
                   vm_thread, capture_trace, ticks_after_stop>>

\* this->threads.resumed(rb_thread_current())
start_resumed(c) ==
    /\ api[c] = "resumed"
    /\ ApiCanStep(c)
    /\ ~threads_mutex[c]
    /\ \E r \in {ThreadTable_set_state(threads[c], RUNNING, api_caller[c],
                                       api_caller[c])} :
          /\ threads' = [threads EXCEPT ![c] = r.list]
          /\ crashed' = ~r.ok
    /\ api' = [api EXCEPT ![c] = "add_hooks"]
    /\ UNCHANGED <<mutex, count, sigaction, live_sample, installed, api_caller,
                   api_result, base_running, running, thread_stopped, hooks,
                   threads_mutex, frame_list, ticks_after_stop>>
    /\ ApiUnchanged

\* the three hooks are added; start returns true
start_add_hooks(c) ==
    /\ api[c] = "add_hooks"
    /\ ApiCanStep(c)
    /\ hooks' = [hooks EXCEPT ![c] = TRUE]
    /\ api' = [api EXCEPT ![c] = "idle"]
    /\ api_result' = [api_result EXCEPT ![api_caller[c]] = "true"]
    /\ UNCHANGED <<mutex, count, sigaction, live_sample, installed, api_caller,
                   base_running, running, thread_stopped, threads,
                   threads_mutex, frame_list, crashed, ticks_after_stop>>
    /\ ApiUnchanged

(***************************************************************************)
(* collector_stop and TimeCollector::stop.                                 *)
(***************************************************************************)
\* Ruby thread th calls stop on collector c
collector_stop(c, th) ==
    /\ api[c] = "idle"
    /\ CanCall(th)
    /\ api' = [api EXCEPT ![c] = "stop"]
    /\ api_caller' = [api_caller EXCEPT ![c] = th]
    /\ api_result' = [api_result EXCEPT ![th] = "none"]
    /\ UNCHANGED <<mutex, count, sigaction, live_sample, installed,
                   base_running, running, thread_stopped, hooks, threads,
                   threads_mutex, frame_list, crashed, ticks_after_stop>>
    /\ ApiUnchanged

BaseCollector_stop_never_raises(c) == FALSE

\* BaseCollector::stop raises
BaseCollector_stop_raises(c) == ~base_running[c]

\* BaseCollector::stop; rb_raise leaves TimeCollector::stop at once
BaseCollector_stop(c) ==
    /\ api[c] = "stop"
    /\ ApiCanStep(c)
    /\ IF BaseCollector_stop_raises(c)
         THEN /\ api' = [api EXCEPT ![c] = "idle"]
              /\ api_result' =
                    [api_result EXCEPT ![api_caller[c]] = "collector not running"]
              /\ UNCHANGED base_running
         ELSE /\ api' = [api EXCEPT ![c] = "clear_running"]
              /\ base_running' = [base_running EXCEPT ![c] = FALSE]
              /\ UNCHANGED api_result
    /\ UNCHANGED <<mutex, count, sigaction, live_sample, installed, api_caller,
                   running, thread_stopped, hooks, threads, threads_mutex,
                   frame_list, crashed, ticks_after_stop>>
    /\ ApiUnchanged

\* running = false
stop_clear_running(c) ==
    /\ api[c] = "clear_running"
    /\ ApiCanStep(c)
    /\ running' = [running EXCEPT ![c] = FALSE]
    /\ ticks_after_stop' = [ticks_after_stop EXCEPT ![c] = 0]
    /\ api' = [api EXCEPT ![c] = "wait"]
    /\ UNCHANGED <<mutex, count, sigaction, live_sample, installed, api_caller,
                   api_result, base_running, thread_stopped, hooks, threads,
                   threads_mutex, frame_list, crashed>>
    /\ ApiUnchanged

thread_stopped_wait_returns_at_once(c) == TRUE

\* sem_wait(&thread_stopped.sem) returns
thread_stopped_wait_returns(c) == thread_stopped[c] > 0

\* thread_stopped.wait()
stop_wait(c) ==
    /\ api[c] = "wait"
    /\ ApiCanStep(c)
    /\ thread_stopped_wait_returns(c)
    /\ thread_stopped' = [thread_stopped EXCEPT ![c] = thread_stopped[c] - 1]
    /\ api' = [api EXCEPT ![c] = "uninstall"]
    /\ UNCHANGED <<mutex, count, sigaction, live_sample, installed, api_caller,
                   api_result, base_running, running, hooks, threads,
                   threads_mutex, frame_list, crashed, ticks_after_stop>>
    /\ ApiUnchanged

\* GlobalSignalHandler::get_instance()->uninstall()
stop_uninstall(c) ==
    /\ api[c] = "uninstall"
    /\ ApiCanStep(c)
    /\ uninstall(c)
    /\ api' = [api EXCEPT ![c] = "remove_hooks"]
    /\ UNCHANGED <<api_caller, api_result, base_running, running,
                   thread_stopped, hooks, threads, threads_mutex, frame_list,
                   crashed, ticks_after_stop>>
    /\ ApiUnchanged

\* the three hooks are removed
stop_remove_hooks(c) ==
    /\ api[c] = "remove_hooks"
    /\ ApiCanStep(c)
    /\ hooks' = [hooks EXCEPT ![c] = FALSE]
    /\ api' = [api EXCEPT ![c] = "finalize"]
    /\ UNCHANGED <<mutex, count, sigaction, live_sample, installed, api_caller,
                   api_result, base_running, running, thread_stopped, threads,
                   threads_mutex, frame_list, crashed, ticks_after_stop>>
    /\ ApiUnchanged

\* the thread names are captured; frame_list.finalize()
stop_finalize(c) ==
    /\ api[c] = "finalize"
    /\ ApiCanStep(c)
    /\ frame_list' = [frame_list EXCEPT ![c] = "finalized"]
    /\ api' = [api EXCEPT ![c] = "result"]
    /\ UNCHANGED <<mutex, count, sigaction, live_sample, installed, api_caller,
                   api_result, base_running, running, thread_stopped, hooks,
                   threads, threads_mutex, crashed, ticks_after_stop>>
    /\ ApiUnchanged

\* build_collector_result(); reset(), which clears the frame_list; return
stop_result(c) ==
    /\ api[c] = "result"
    /\ ApiCanStep(c)
    /\ frame_list' = [frame_list EXCEPT ![c] = "empty"]
    /\ api' = [api EXCEPT ![c] = "idle"]
    /\ api_result' = [api_result EXCEPT ![api_caller[c]] = "result"]
    /\ ticks_after_stop' = [ticks_after_stop EXCEPT ![c] = 0]
    /\ UNCHANGED <<mutex, count, sigaction, live_sample, installed, api_caller,
                   base_running, running, thread_stopped, hooks, threads,
                   threads_mutex, crashed>>
    /\ ApiUnchanged

(***************************************************************************)
(* TimeCollector::sample_thread_run, the thread of pthread_create.         *)
(***************************************************************************)
SamplerUnchanged ==
    UNCHANGED <<treeVars, componentVars, count, sigaction, handler, handler_sample, installed,
                base_running, running, hooks, threads, api, api_caller,
                api_result, vm_thread>>

sample_thread_never_leaves(c) == TRUE

\* while (running)
sample_thread_continues(c) == running[c]

\* the test of the while loop, after the sleep of the tick before
sample_thread_loop(c) ==
    /\ ~crashed
    /\ sampler[c] = "loop"
    /\ sampler' = [sampler EXCEPT ![c] =
                      IF sample_thread_continues(c) THEN "tick" ELSE "post"]
    /\ UNCHANGED <<mutex, live_sample, pending, thread_stopped, threads_mutex,
                   frame_list, iter, raw_sample, sem_complete, ts_passed,
                   crashed, capture_trace, ticks_after_stop>>
    /\ SamplerUnchanged

\* a tick begins: sample_start is taken and threads.mutex locked
sample_thread_tick(c) ==
    /\ ~crashed
    /\ sampler[c] = "tick"
    /\ ~threads_mutex[c]
    /\ threads_mutex' = [threads_mutex EXCEPT ![c] = TRUE]
    /\ iter' = [iter EXCEPT ![c] = 1]
    /\ sampler' = [sampler EXCEPT ![c] = "for"]
    /\ ticks_after_stop' =
          [ticks_after_stop EXCEPT ![c] =
              IF ~running[c] /\ @ < MaxTicksAfterStop THEN @ + 1 ELSE @]
    /\ UNCHANGED <<mutex, live_sample, pending, thread_stopped, frame_list,
                   raw_sample, sem_complete, ts_passed, crashed, capture_trace>>
    /\ SamplerUnchanged

\* one turn of the for loop over threads.list, or its end: the unlock and
\* the sleep until the next tick
sample_thread_for(c) ==
    /\ ~crashed
    /\ sampler[c] = "for"
    /\ IF iter[c] > Len(threads[c])
         THEN /\ threads_mutex' = [threads_mutex EXCEPT ![c] = FALSE]
              /\ sampler' = [sampler EXCEPT ![c] = "loop"]
              /\ iter' = [iter EXCEPT ![c] = 0]
              /\ capture_trace' = [capture_trace EXCEPT ![c] = <<>>]
         ELSE /\ sampler' = [sampler EXCEPT ![c] =
                     IF threads[c][iter[c]].state = RUNNING
                       THEN "record_sample" ELSE "for"]
              \* a SUSPENDED thread gets an idle sample of stack_on_suspend_idx
              /\ iter' = [iter EXCEPT ![c] =
                     IF threads[c][iter[c]].state = RUNNING THEN @ ELSE @ + 1]
              /\ UNCHANGED <<threads_mutex, capture_trace>>
    /\ UNCHANGED <<mutex, live_sample, pending, thread_stopped, frame_list,
                   raw_sample, sem_complete, ts_passed, crashed,
                   ticks_after_stop>>
    /\ SamplerUnchanged

\* thread_stopped.post(), the last statement of the thread
sample_thread_post(c) ==
    /\ ~crashed
    /\ sampler[c] = "post"
    /\ thread_stopped' = [thread_stopped EXCEPT ![c] = @ + 1]
    /\ sampler' = [sampler EXCEPT ![c] = "exited"]
    /\ UNCHANGED <<mutex, live_sample, pending, threads_mutex, frame_list, iter,
                   raw_sample, sem_complete, ts_passed, crashed, capture_trace,
                   ticks_after_stop>>
    /\ SamplerUnchanged

(***************************************************************************)
(* GlobalSignalHandler::record_sample, called by the sampler of collector  *)
(* c for the thread at iter[c], and the use of the sample after it.        *)
(***************************************************************************)
record_sample_without_lock == TRUE

\* std::lock_guard<std::mutex> lock(mutex) gets the mutex
record_sample_locks == mutex = 0

\* the lock, assert(pthread_id) and live_sample = &sample
record_sample_publish(c) ==
    /\ ~crashed
    /\ sampler[c] = "record_sample"
    /\ record_sample_locks
    /\ mutex' = c
    /\ IF threads[c][iter[c]].pthread_id = 0
         THEN /\ crashed' = TRUE
              /\ UNCHANGED <<live_sample, sampler, capture_trace>>
         ELSE /\ live_sample' = c
              /\ sampler' = [sampler EXCEPT ![c] = "kill"]
              /\ capture_trace' = [capture_trace EXCEPT ![c] = <<"publish">>]
              /\ UNCHANGED crashed
    /\ UNCHANGED <<pending, thread_stopped, threads_mutex, frame_list, iter,
                   raw_sample, sem_complete, ts_passed, ticks_after_stop>>
    /\ SamplerUnchanged

\* pthread_kill(pthread_id, SIGPROF), then sample.wait() computes its ts
\* (pthread_kill fails, and rb_bug()s, only for a thread that no longer
\* exists; the native threads of the model all live on)
record_sample_kill(c) ==
    /\ ~crashed
    /\ sampler[c] = "kill"
    /\ pending' = [pending EXCEPT ![threads[c][iter[c]].pthread_id] = TRUE]
    /\ capture_trace' = [capture_trace EXCEPT ![c] = Append(@, "signal")]
    /\ ts_passed' = [ts_passed EXCEPT ![c] = FALSE]
    /\ sampler' = [sampler EXCEPT ![c] = "wait"]
    /\ UNCHANGED <<mutex, live_sample, thread_stopped, threads_mutex,
                   frame_list, iter, raw_sample, sem_complete, crashed,
                   ticks_after_stop>>
    /\ SamplerUnchanged

\* sem_wait(&sem_complete.sem) returns; live_sample = NULL; the unlock
record_sample_wait(c) ==
    /\ ~crashed
    /\ sampler[c] = "wait"
    /\ sem_complete[c] > 0
    /\ sem_complete' = [sem_complete EXCEPT ![c] = @ - 1]
    /\ capture_trace' = [capture_trace EXCEPT ![c] = Append(@, "return")]
    /\ live_sample' = 0
    /\ mutex' = 0
    /\ ts_passed' = [ts_passed EXCEPT ![c] = FALSE]
    /\ sampler' = [sampler EXCEPT ![c] = "read"]
    /\ UNCHANGED <<pending, thread_stopped, threads_mutex, frame_list, iter,
                   raw_sample, crashed, ticks_after_stop>>
    /\ SamplerUnchanged

\* sample.sample.gc is read and, unless it is set, the sample is recorded:
\* a sample that is not empty is translated into the frame_list
sample_thread_read(c) ==
    /\ ~crashed
    /\ sampler[c] = "read"
    /\ capture_trace' = [capture_trace EXCEPT ![c] = Append(@, "read")]
    /\ frame_list' = [frame_list EXCEPT ![c] =
                         IF raw_sample[c] = "stack" THEN "interned" ELSE @]
    /\ iter' = [iter EXCEPT ![c] = @ + 1]
    /\ sampler' = [sampler EXCEPT ![c] = "for"]
    /\ UNCHANGED <<mutex, live_sample, pending, thread_stopped, threads_mutex,
                   raw_sample, sem_complete, ts_passed, crashed,
                   ticks_after_stop>>
    /\ SamplerUnchanged

(***************************************************************************)
(* SIGPROF on native thread th: GlobalSignalHandler::signal_handler and    *)
(* LiveSample::sample_current_thread.  handler[th] is 0 outside the        *)
(* handler, else the position in sample_current_thread of its next         *)
(* statement.                                                              *)
(***************************************************************************)
HandlerUnchanged ==
    UNCHANGED <<treeVars, componentVars, mutex, count, sigaction, live_sample, installed,
                collectorVars, sampler, iter, ts_passed, vm_thread,
                ticks_after_stop>>

sample_current_thread_post_first == <<"post", "sample">>

\* the statements of LiveSample::sample_current_thread, in order
sample_current_thread == <<"sample", "post">>

\* a mutant of signal_delivered: the handler begins by taking the
\* ThreadTable mutexes, so it runs only once they are free
signal_delivered_once_tables_are_free(th) ==
    /\ pending[th]
    /\ handler[th] = 0
    /\ \A c \in Collectors : ~threads_mutex[c]

\* SIGPROF is pending on th, which is not in the handler already (sa_mask
\* is empty, but the signal is blocked while its own handler runs); the
\* handler takes no lock, so it runs whatever th holds or waits for
signal_delivered(th) ==
    /\ pending[th]
    /\ handler[th] = 0

\* the pending SIGPROF is delivered: ignored under SIG_IGN, fatal under
\* SIG_DFL, else signal_handler runs up to its call of sample_current_thread
signal_handler(th) ==
    /\ ~crashed
    /\ signal_delivered(th)
    /\ pending' = [pending EXCEPT ![th] = FALSE]
    /\ IF sigaction = "SIG_IGN"
         THEN UNCHANGED <<handler, handler_sample, crashed>>
         ELSE IF sigaction = "SIG_DFL" \/ live_sample = 0
           THEN /\ crashed' = TRUE
                /\ UNCHANGED <<handler, handler_sample>>
           ELSE /\ handler' = [handler EXCEPT ![th] = 1]
                /\ handler_sample' = [handler_sample EXCEPT ![th] = live_sample]
                /\ UNCHANGED crashed
    /\ UNCHANGED <<raw_sample, sem_complete, capture_trace>>
    /\ HandlerUnchanged

\* the next statement of sample_current_thread: sample.sample(), which
\* leaves one of SampleKinds in the RawSample, or sem_complete.post()
sample_current_thread_step(th) ==
    /\ ~crashed
    /\ handler[th] # 0
    /\ LET c == handler_sample[th]
           stmt == sample_current_thread[handler[th]]
       IN  /\ IF stmt = "sample"
                THEN /\ \E kind \in SampleKinds :
                           raw_sample' = [raw_sample EXCEPT ![c] = kind]
                     /\ capture_trace' =
                           [capture_trace EXCEPT ![c] = Append(@, "fill")]
                     /\ UNCHANGED sem_complete
                ELSE /\ sem_complete' = [sem_complete EXCEPT ![c] = @ + 1]
                     /\ capture_trace' =
                           [capture_trace EXCEPT ![c] = Append(@, "post")]
                     /\ UNCHANGED raw_sample
           /\ IF handler[th] = Len(sample_current_thread)
                THEN /\ handler' = [handler EXCEPT ![th] = 0]
                     /\ handler_sample' = [handler_sample EXCEPT ![th] = 0]
                ELSE /\ handler' = [handler EXCEPT ![th] = @ + 1]
                     /\ UNCHANGED handler_sample
    /\ UNCHANGED <<pending, crashed>>
    /\ HandlerUnchanged

(***************************************************************************)
(* What the rest of the process does.                                      *)
(***************************************************************************)
\* the SIGPROF sent to native thread th never reaches a handler
signal_lost(th) ==
    /\ ~crashed
    /\ pending[th]
    /\ pending' = [pending EXCEPT ![th] = FALSE]
    /\ UNCHANGED <<treeVars, componentVars, mutex, count, sigaction, live_sample, handler,
                   handler_sample, collectorVars, samplerVars, vm_thread,
                   crashed, historyVars>>

\* Now() reaches the ts that the wait() of sampler c computed
ts_passes(c) ==
    /\ ~crashed
    /\ sampler[c] = "wait"
    /\ ~ts_passed[c]
    /\ ts_passed' = [ts_passed EXCEPT ![c] = TRUE]
    /\ UNCHANGED <<treeVars, componentVars, signalVars, collectorVars, sampler, iter,
                   raw_sample, sem_complete, vm_thread, crashed, historyVars>>

\* the events of a Ruby thread that goes on living, in the VM's order
VmEvents ==
    { [from |-> "running", event |-> SUSPENDED, to |-> "suspended"],
      [from |-> "suspended", event |-> READY, to |-> "ready"],
      [from |-> "ready", event |-> RUNNING, to |-> "running"] }

RECURSIVE EventCallbacks(_, _, _, _)
\* internal_thread_event_cb of every collector in todo, on thread th
EventCallbacks(todo, tables, event, th) ==
    IF todo = {} THEN [threads |-> tables, ok |-> TRUE]
    ELSE LET c == CHOOSE d \in todo : TRUE
             r == ThreadTable_set_state(tables[c], event, th, th)
             rest == EventCallbacks(todo \ {c}, [tables EXCEPT ![c] = r.list],
                                    event, th)
         IN  [threads |-> rest.threads, ok |-> r.ok /\ rest.ok]

\* Ruby thread th does what the VM reports as e.event: every collector whose
\* hooks are added runs internal_thread_event_cb, under its threads.mutex;
\* for SUSPENDED the callback samples the thread and translates the sample
internal_thread_event_cb(th, e) ==
    /\ ~crashed
    /\ vm_thread[th] = e.from
    /\ ~InCall(th)
    /\ handler[th] = 0
    /\ \A c \in Collectors : hooks[c] => ~threads_mutex[c]
    /\ vm_thread' = [vm_thread EXCEPT ![th] = e.to]
    /\ \E r \in {EventCallbacks({c \in Collectors : hooks[c]}, threads,
                                e.event, th)} :
          /\ threads' = r.threads
          /\ crashed' = ~r.ok
    /\ \E kind \in SampleKinds :
          frame_list' = [c \in Collectors |->
                            IF /\ hooks[c]
                               /\ e.event = SUSPENDED
                               /\ ThreadPos(threads[c], th) # 0
                               /\ kind = "stack"
                              THEN "interned" ELSE frame_list[c]]
    /\ UNCHANGED <<treeVars, componentVars, signalVars, base_running, running, thread_stopped,
                   hooks, threads_mutex, api, api_caller, api_result,
                   samplerVars, historyVars>>

NextLive ==
    \/ \E c \in Collectors, th \in RubyThreads : collector_start(c, th)
    \/ \E c \in Collectors : BaseCollector_start(c)
    \/ \E c \in Collectors : start_install(c)
    \/ \E c \in Collectors : start_pthread_create(c)
    \/ \E c \in Collectors : start_resumed(c)
    \/ \E c \in Collectors : start_add_hooks(c)
    \/ \E c \in Collectors, th \in RubyThreads : collector_stop(c, th)
    \/ \E c \in Collectors : BaseCollector_stop(c)
    \/ \E c \in Collectors : stop_clear_running(c)
    \/ \E c \in Collectors : stop_wait(c)
    \/ \E c \in Collectors : stop_uninstall(c)
    \/ \E c \in Collectors : stop_remove_hooks(c)
    \/ \E c \in Collectors : stop_finalize(c)
    \/ \E c \in Collectors : stop_result(c)
    \/ \E c \in Collectors : sample_thread_loop(c)
    \/ \E c \in Collectors : sample_thread_tick(c)
    \/ \E c \in Collectors : sample_thread_for(c)
    \/ \E c \in Collectors : sample_thread_post(c)
    \/ \E c \in Collectors : record_sample_publish(c)
    \/ \E c \in Collectors : record_sample_kill(c)
    \/ \E c \in Collectors : record_sample_wait(c)
    \/ \E c \in Collectors : sample_thread_read(c)
    \/ \E th \in RubyThreads : signal_handler(th)
    \/ \E th \in RubyThreads : sample_current_thread_step(th)
    \/ \E th \in RubyThreads, e \in VmEvents : internal_thread_event_cb(th, e)

Next ==
    \/ NextLive
    \/ \E th \in RubyThreads : signal_lost(th)
    \/ \E c \in Collectors : ts_passes(c)

Spec == Init /\ [][Next]_vars

(***************************************************************************)
(* The capture handshake.                                                  *)
(***************************************************************************)
\* sampler c has published its LiveSample and not yet returned from the wait
InFlight(c) == sampler[c] \in {"kill", "wait"}

\* C1: at most one capture is in flight in the process, and from a
\* sampler's publish of the slot to its return from the semaphore wait the
\* slot holds that sampler's LiveSample: no other sampler overwrites or
\* clears it, and a handler that read the slot read that sampler's.
C1_OneCaptureInFlight ==
    /\ \A c, d \in Collectors : InFlight(c) /\ InFlight(d) => c = d
    /\ \A c \in Collectors : InFlight(c) => live_sample = c /\ mutex = c
    /\ \A th \in RubyThreads :
          handler[th] # 0 => sampler[handler_sample[th]] = "wait"

\* a capture of one sampler is in flight while the other sampler has
\* reached record_sample for a thread of its own
C1_Witness ==
    \E c, d \in Collectors :
        /\ c # d
        /\ sampler[c] = "wait"
        /\ handler[threads[c][iter[c]].pthread_id] # 0
        /\ sampler[d] = "record_sample"

\* the events of one capture, in order
CaptureOrder == <<"publish", "signal", "fill", "post", "return", "read">>

\* C2: the events of every capture happen in the order publish, signal,
\* fill, post, return from the wait, read: what has happened of a capture
\* is always a prefix of that order, so the sample is read only after it
\* was filled and posted, and one signal gets one post.
C2_HandshakeOrder ==
    \A c \in Collectors :
        /\ Len(capture_trace[c]) <= Len(CaptureOrder)
        /\ capture_trace[c] = SubSeq(CaptureOrder, 1, Len(capture_trace[c]))
        /\ sem_complete[c] <= 1
        /\ sem_complete[c] = 1 => capture_trace[c] = SubSeq(CaptureOrder, 1, 4)

\* a capture has gone through all its events, and the sample holds a stack
C2_Witness ==
    \E c \in Collectors :
        capture_trace[c] = CaptureOrder /\ raw_sample[c] = "stack"

\* the handshake of sampler c can no longer complete: it waits, nothing was
\* posted, and the signal is neither pending nor in a handler
NeverPosted(c) ==
    /\ sampler[c] = "wait"
    /\ sem_complete[c] = 0
    /\ \A th \in RubyThreads : ~pending[th] /\ handler[th] = 0

\* C3: when the handler never posts, the sampler's wait ends in a fatal
\* abort once the ts it computed has passed: no sampler is still waiting,
\* in a process that goes on, after that time.
C3_WaitEndsInAbort ==
    \A c \in Collectors : NeverPosted(c) /\ ts_passed[c] => crashed

(***************************************************************************)
(* install() and uninstall().                                              *)
(***************************************************************************)
Registered == sigaction = "signal_handler"

\* C4: the handler is registered exactly when count >= 1, count being the
\* number of collectors whose install() is not undone; a step registers it
\* only by taking count from 0 to 1 and deregisters it only by taking count
\* from 1 to 0.
C4_ReferenceCounted ==
    /\ [](count = Cardinality(installed) /\ (Registered <=> count >= 1))
    /\ [][/\ (~Registered /\ Registered') => (count = 0 /\ count' = 1)
          /\ (Registered /\ ~Registered') => (count = 1 /\ count' = 0)]_vars

\* a collector has uninstalled while another still holds its install
C4_Witness ==
    \E c \in Collectors :
        api[c] = "remove_hooks" /\ count = 1 /\ Registered /\ c \notin installed

(***************************************************************************)
(* start() and stop() on a collector in the wrong state.                   *)
(***************************************************************************)
\* the last call on collector c has returned v to its caller
Returned(c, v) ==
    api[c] = "idle" /\ api_caller[c] # 0 /\ api_result[api_caller[c]] = v

\* the step of the call on collector c changes nothing but the call itself
CallChangesNothing ==
    UNCHANGED <<signalVars, base_running, running, thread_stopped, hooks,
                threads, threads_mutex, frame_list, samplerVars, vm_thread,
                crashed, historyVars>>

\* C5: start() on a running collector fails with "already running" and
\* changes nothing: no sampler thread, no install, no hook, no change of
\* the thread table.
C5_StartWhileRunning ==
    [][\A c \in Collectors :
          (api[c] = "start" /\ base_running[c] /\ api'[c] # api[c]) =>
              /\ api'[c] = "idle"
              /\ api_result'[api_caller[c]] = "already running"
              /\ CallChangesNothing]_vars

\* start() was refused on a collector whose sampler runs and whose hooks
\* are added
C5_Witness ==
    \E c \in Collectors :
        /\ Returned(c, "already running")
        /\ sampler[c] \notin {"none", "exited"}
        /\ hooks[c]
        /\ count = 1

\* C6: stop() on a collector that is not running raises "collector not
\* running" and changes nothing: no wait, no uninstall, no finalize, no
\* reset.
C6_StopWhileNotRunning ==
    [][\A c \in Collectors :
          (api[c] = "stop" /\ ~base_running[c] /\ api'[c] # api[c]) =>
              /\ api'[c] = "idle"
              /\ api_result'[api_caller[c]] = "collector not running"
              /\ CallChangesNothing]_vars

\* stop() was refused on a collector that was started and stopped before,
\* and changed nothing of what that left
C6_Witness ==
    \E c \in Collectors :
        /\ Returned(c, "collector not running")
        /\ sampler[c] = "exited"
        /\ threads[c] # <<>>

\* stop() on collector c has returned from thread_stopped.wait()
PastWait(c) == api[c] \in {"uninstall", "remove_hooks", "finalize", "result"}

\* C7: stop() finalizes and builds its result only after the sampler thread
\* has left its loop and posted, the install is undone and the hooks are
\* removed; once stop() is past the wait the sampler thread has exited,
\* holds no mutex and takes no further step.
C7_StopOrdering ==
    /\ [](\A c \in Collectors :
            /\ api[c] \in {"finalize", "result"} =>
                  /\ sampler[c] = "exited"
                  /\ c \notin installed
                  /\ ~hooks[c]
            /\ PastWait(c) =>
                  /\ sampler[c] = "exited"
                  /\ thread_stopped[c] = 0
                  /\ ~threads_mutex[c]
                  /\ mutex # c)
    /\ [][\A c \in Collectors :
            PastWait(c) => sampler'[c] = sampler[c]]_vars

\* stop() is about to finalize a frame_list that the sampler has written
C7_Witness ==
    \E c \in Collectors :
        /\ api[c] = "finalize"
        /\ frame_list[c] = "interned"
        /\ threads[c] # <<>>

(***************************************************************************)
(* LiveSpec: the collectors in a process where every capture completes: no *)
(* signal is lost.  Every thread that can take a step goes on to take it:  *)
(* a thread that waits for the GlobalSignalHandler mutex gets it in the    *)
(* end, since its holders sleep between their ticks, and a Ruby thread     *)
(* goes on with its call between two runs of the signal handler.           *)
(***************************************************************************)
\* a step of the sampler thread of collector c other than taking the
\* GlobalSignalHandler mutex
SamplerStep(c) ==
    \/ sample_thread_loop(c)
    \/ sample_thread_tick(c)
    \/ sample_thread_for(c)
    \/ sample_thread_post(c)
    \/ record_sample_kill(c)
    \/ record_sample_wait(c)
    \/ sample_thread_read(c)

\* a step of stop() on collector c after it has cleared running
StopStep(c) ==
    \/ stop_wait(c)
    \/ stop_uninstall(c)
    \/ stop_remove_hooks(c)
    \/ stop_finalize(c)
    \/ stop_result(c)

\* a step of the delivery and handling of SIGPROF on native thread th
HandlerStep(th) == signal_handler(th) \/ sample_current_thread_step(th)

Fairness ==
    /\ \A c \in Collectors :
          /\ WF_vars(SamplerStep(c))
          /\ SF_vars(record_sample_publish(c))
          /\ SF_vars(StopStep(c))
    /\ \A th \in RubyThreads : WF_vars(HandlerStep(th))

LiveSpec == Init /\ [][NextLive]_vars /\ Fairness

\* C8: after stop() has cleared running, the sampler thread begins at most
\* one more tick and posts thread_stopped once, and stop() returns its
\* result in the end.
C8_CancellationLiveness ==
    /\ [](\A c \in Collectors :
            /\ ticks_after_stop[c] <= 1
            /\ thread_stopped[c] <= 1
            /\ (api[c] = "wait" /\ sampler[c] = "exited") =>
                  thread_stopped[c] = 1)
    /\ \A c \in Collectors :
          (api[c] = "wait") ~> Returned(c, "result")

\* stop() is about to return its result on a collector whose sampler thread
\* began a tick after running was cleared
C8_Witness ==
    \E c \in Collectors :
        /\ api[c] = "result"
        /\ ticks_after_stop[c] = 1
        /\ sampler[c] = "exited"

(***************************************************************************)
(* SpecSamples: one SampleList under record_sample calls.                  *)
(***************************************************************************)
CATEGORY_NORMAL == "CATEGORY_NORMAL"
CATEGORY_IDLE == "CATEGORY_IDLE"
Categories == {CATEGORY_NORMAL, CATEGORY_IDLE}

\* the stack indexes and native thread ids the calls are made with
StackIndexes == {0, 1}
NativeTids == {1, 2}

\* the number of record_sample calls made on the list
MaxRecordings == 3

same_as_back_whatever_the_category(list, index, thread_id, category) ==
    /\ list # <<>>
    /\ list[Len(list)].stack = index
    /\ list[Len(list)].thread = thread_id

\* !empty() && stacks.back() == stack_index && threads.back() == thread_id
\*          && categories.back() == category
same_as_back(list, index, thread_id, category) ==
    /\ list # <<>>
    /\ list[Len(list)].stack = index
    /\ list[Len(list)].thread = thread_id
    /\ list[Len(list)].category = category

SampleList_record_sample(list, index, time, thread_id, category) ==
    IF same_as_back(list, index, thread_id, category)
    THEN [list EXCEPT ![Len(list)].weight = @ + 1]
    ELSE Append(list, [stack |-> index, timestamp |-> time,
                       thread |-> thread_id, category |-> category,
                       weight |-> 1])

\* a call of record_sample; the clock may or may not have moved since the
\* call before
record_sample_call ==
    /\ Len(recorded) < MaxRecordings
    /\ \E index \in StackIndexes, thread_id \in NativeTids,
          category \in Categories :
          /\ sample_list' = SampleList_record_sample(sample_list, index,
                                                     clock, thread_id, category)
          /\ recorded' = Append(recorded, [stack |-> index,
                                           time |-> clock,
                                           thread |-> thread_id,
                                           category |-> category])
    /\ clock' \in {clock, clock + 1}
    /\ UNCHANGED <<treeVars, profilerVars, threadVars, loopVars, gcVars,
                   lockVars>>

InitSamples == InitNoCollector

NextSamples == record_sample_call

SpecSamples == InitSamples /\ [][NextSamples]_vars

\* what two recordings must share to be one entry
KeyOf(r) == <<r.stack, r.thread, r.category>>

\* the weights of the first n entries of the list
RECURSIVE WeightOfFirst(_, _)
WeightOfFirst(list, n) ==
    IF n = 0 THEN 0 ELSE list[n].weight + WeightOfFirst(list, n - 1)

\* C11: the sample list is the run-length encoding of the recordings made:
\* its entries are, in order, the maximal runs of consecutive recordings with
\* the same stack index, native thread id and category; an entry's weight is
\* the length of its run and its timestamp is that of the first recording of
\* the run; a recording that differs from the one before starts a new entry
\* of weight 1.
C11_RunLengthEncoding ==
    /\ WeightOfFirst(sample_list, Len(sample_list)) = Len(recorded)
    /\ \A i \in 1..Len(sample_list) :
          LET e == sample_list[i]
              first == 1 + WeightOfFirst(sample_list, i - 1)
          IN  /\ e.weight >= 1
              /\ \A k \in first..(first + e.weight - 1) :
                    KeyOf(recorded[k]) = KeyOf(e)
              /\ e.timestamp = recorded[first].time
              /\ i > 1 => KeyOf(sample_list[i - 1]) # KeyOf(e)

\* a run of two recordings made at different times, then a different one
C11_Witness ==
    /\ Len(recorded) = 3
    /\ Len(sample_list) = 2
    /\ sample_list[1].weight = 2
    /\ recorded[2].time > recorded[1].time
    /\ sample_list[2].weight = 1

(***************************************************************************)
(* SpecThread: the ThreadTable of one collector under the lifecycle        *)
(* notifications of one thread identity, with whole Thread records: the    *)
(* timestamps, the stack index at suspend, the translator and the markers. *)
(* The FrameList the translators write to is root_stack_node and           *)
(* stack_node_list.                                                        *)
(***************************************************************************)
MARKER_GVL_THREAD_STARTED == "MARKER_GVL_THREAD_STARTED"
MARKER_GVL_THREAD_EXITED == "MARKER_GVL_THREAD_EXITED"
MARKER_THREAD_RUNNING == "MARKER_THREAD_RUNNING"
MARKER_THREAD_STALLED == "MARKER_THREAD_STALLED"
MARKER_THREAD_SUSPENDED == "MARKER_THREAD_SUSPENDED"
INSTANT == "INSTANT"
INTERVAL == "INTERVAL"

\* MarkerTable::record_interval
MarkerTable_record_interval(list, type, from, to, index) ==
    Append(list, [type |-> type, phase |-> INTERVAL, timestamp |-> from,
                  finish |-> to, stack_index |-> index])

MarkerTable_record_at_front(list, type, now) ==
    <<[type |-> type, phase |-> INSTANT, timestamp |-> now,
       finish |-> 0, stack_index |-> -1]>> \o list

\* MarkerTable::record: the marker is stamped by a Now() of its own, which the
\* model takes at the instant of the caller's
MarkerTable_record(list, type, now) ==
    Append(list, [type |-> type, phase |-> INSTANT, timestamp |-> now,
                  finish |-> 0, stack_index |-> -1])

NewThread_without_marker(state, pthread_id, ruby_thread, now) ==
    [ruby_thread |-> ruby_thread, pthread_id |-> pthread_id, state |-> state,
     state_changed_at |-> now, started_at |-> now, stopped_at |-> 0,
     stack_on_suspend_idx |-> -1, translator |-> NewTranslator,
     markers |-> <<>>, samples |-> <<>>]

\* Thread::Thread(state, pthread_id, ruby_thread)
NewThread(state, pthread_id, ruby_thread, now) ==
    [ruby_thread |-> ruby_thread, pthread_id |-> pthread_id, state |-> state,
     state_changed_at |-> now, started_at |-> now, stopped_at |-> 0,
     stack_on_suspend_idx |-> -1, translator |-> NewTranslator,
     markers |-> IF state = STARTED
                 THEN MarkerTable_record(<<>>, MARKER_GVL_THREAD_STARTED, now)
                 ELSE <<>>,
     samples |-> <<>>]

ready_after_anything(state) == TRUE

\* case State::READY: "else if (state == State::RUNNING)"
ready_after_running(state) == state = RUNNING

ready_never_after_suspended(state) == FALSE

\* case State::READY: "if (state == State::SUSPENDED)"
ready_after_suspended(state) == state = SUSPENDED

stalled_whatever_the_time(from, now) == TRUE

\* case State::RUNNING: "if (from != now)"
stalled_for_some_time(from, now) == from # now

\* the markers the switch of Thread::set_state records
TransitionMarkers(thread, new_state, from, now) ==
    LET list == thread.markers
    IN  IF new_state = RUNNING
          THEN IF stalled_for_some_time(from, now)
               THEN MarkerTable_record_interval(list, MARKER_THREAD_STALLED,
                                                from, now, -1)
               ELSE list
        ELSE IF new_state = READY
          THEN IF ready_after_suspended(thread.state)
               THEN MarkerTable_record_interval(list, MARKER_THREAD_SUSPENDED,
                                                from, now,
                                                thread.stack_on_suspend_idx)
               ELSE IF ready_after_running(thread.state)
               THEN MarkerTable_record_interval(list, MARKER_THREAD_RUNNING,
                                                from, now, -1)
               ELSE list
        ELSE IF new_state = SUSPENDED
          THEN MarkerTable_record_interval(list, MARKER_THREAD_RUNNING,
                                           from, now, -1)
        ELSE \* STOPPED
               MarkerTable_record(
                   MarkerTable_record_interval(list, MARKER_THREAD_RUNNING,
                                               from, now, -1),
                   MARKER_GVL_THREAD_EXITED, now)

\* a mutant of state_changed_at_after: the instant of the last change is kept
state_changed_at_kept(from, now) == from

\* the end of Thread::set_state: state_changed_at = now
state_changed_at_after(from, now) == now

\* Thread::set_state on a whole record, at the instant now its Now() returns;
\* the state, the pthread_id and the asserts are those of Thread_set_state
Thread_set_state_at(thread, new_state, self, now) ==
    LET r == Thread_set_state(thread, new_state, self)
        from == thread.state_changed_at
        started == IF thread.started_at = 0 THEN now ELSE thread.started_at
    IN  IF thread.state = STOPPED
          THEN r
        ELSE IF new_state = SUSPENDED /\ thread.state = new_state
          THEN r
        ELSE IF new_state = STARTED
          THEN [thread |-> [thread EXCEPT
                             !.started_at = started,
                             !.markers = MarkerTable_record(
                                 @, MARKER_GVL_THREAD_STARTED, now)],
                ok |-> TRUE]
        ELSE [thread |-> [r.thread EXCEPT
                           !.started_at = started,
                           !.markers = TransitionMarkers(thread, new_state,
                                                         from, now),
                           !.stopped_at = IF new_state = STOPPED
                                          THEN now ELSE @,
                           !.state_changed_at =
                               state_changed_at_after(from, now)],
              ok |-> r.ok]

\* ThreadTable::set_state on whole records; sample is what sample.sample()
\* captures when new_state is SUSPENDED, fl the collector's frame_list
ThreadTable_set_state_at(list, fl, new_state, th, self, sample, now) ==
    IF ThreadPos(list, th) # 0
      THEN LET i == ThreadPos(list, th)
               tr == IF new_state = SUSPENDED
                     THEN translate(fl, list[i].translator, sample)
                     ELSE [fl |-> fl, tr |-> list[i].translator,
                           index |-> list[i].stack_on_suspend_idx]
               t1 == [list[i] EXCEPT !.stack_on_suspend_idx = tr.index,
                                     !.translator = tr.tr]
               r == Thread_set_state_at(t1, new_state, self, now)
               t2 == [r.thread EXCEPT !.pthread_id =
                         pthread_id_after(r.thread.state, self)]
           IN  [list |-> [list EXCEPT ![i] = t2], fl |-> tr.fl, ok |-> r.ok,
                index |-> tr.index]
      ELSE [list |-> Append(list, NewThread(new_state, self, th, now)),
            fl |-> fl, ok |-> TRUE, index |-> -1]

\* the longest stack captured at a SUSPENDED notification
MaxStackAtSuspend == 1
\* the RawSamples of at most n frames
SamplesUpTo(n) ==
    { [frames |-> [i \in 1..Len(st) |-> st[i].frame],
       lines |-> [i \in 1..Len(st) |-> st[i].line],
       len |-> Len(st), gc |-> FALSE] :
        st \in UNION { [1..k -> Frame] : k \in 0..n } }
    \cup { [frames |-> <<>>, lines |-> <<>>, len |-> 0, gc |-> TRUE] }

SuspendSamples == SamplesUpTo(MaxStackAtSuspend)

\* any notifications up to this many; beyond, only those of the lifecycles
MaxEvents == 3

\* the clock stops here
MaxClock == 4

\* the life of a thread as the VM reports it: started, ready, resumed,
\* suspended, ready, resumed, exited
Lifecycle == <<STARTED, READY, RUNNING, SUSPENDED, READY, RUNNING, STOPPED>>

\* the same without the first READY
LifecycleWithoutReady == <<STARTED, RUNNING, SUSPENDED, READY, RUNNING, STOPPED>>

\* the start of a life in which the VM reports the suspension twice (the
\* code: "on Ruby 3.2 (only?) we may see duplicate suspended states")
LifecycleWithDuplicate == <<STARTED, READY, RUNNING, SUSPENDED, SUSPENDED,
                            READY>>

IsPrefix(s, t) == Len(s) <= Len(t) /\ s = SubSeq(t, 1, Len(s))

StatesFed == [k \in 1..Len(fed) |-> fed[k].state]

\* time passes: the next Now() returns a later instant
time_passes ==
    /\ ~crashed
    /\ clock < MaxClock
    /\ clock' = clock + 1
    /\ UNCHANGED <<treeVars, profilerVars, sampleListVars, threadVars,
                   loopVars, gcVars, lockVars>>

\* the stacks that ThreadTable::set_state can sample for a notification: it
\* samples only at SUSPENDED, and only for a thread the table knows
SamplesAt(list, th, new_state) ==
    IF new_state = SUSPENDED /\ ThreadPos(list, th) # 0
    THEN SuspendSamples ELSE {EmptySample}

\* ThreadTable::set_state(new_state, th) on the table list with the stack
\* sample, and what becomes of the table, the tree and the process; the
\* collector's running flag is left to the caller
notified(list, th, new_state, sample) ==
    /\ \E now \in {clock} :
          \E r \in {ThreadTable_set_state_at(list, FL, new_state, th,
                                             th, sample, now)} :
              /\ Len(r.fl.list) <= MaxNodes
              /\ fed' = Append(fed, [state |-> new_state, at |-> now,
                                     index |-> r.index])
              /\ IF r.ok
                 THEN /\ thread_table' = r.list
                      /\ root_stack_node' = r.fl.root
                      /\ stack_node_list' = r.fl.list
                      /\ UNCHANGED crashed
                 ELSE /\ crashed' = TRUE
                      /\ UNCHANGED <<thread_table, root_stack_node,
                                     stack_node_list>>
    /\ UNCHANGED <<translator, returned, last_call, signalVars, running,
                   thread_stopped, hooks, threads, threads_mutex, frame_list,
                   api, api_caller, api_result,
                   samplerVars, vm_thread, historyVars, clock, sampleListVars,
                   loopVars, gcVars, lockVars>>

\* one of ThreadTable::started, ready, resumed, suspended, stopped, called by
\* internal_thread_event_cb for thread th on that thread, under the mutex
\* of the table, which the sampler thread holds during its for loop; a
\* failed assert ends the process
thread_event(th, new_state) ==
    /\ ~crashed
    /\ loop_pc # "for"
    /\ \/ Len(fed) < MaxEvents
       \/ IsPrefix(Append(StatesFed, new_state), Lifecycle)
       \/ IsPrefix(Append(StatesFed, new_state), LifecycleWithoutReady)
       \/ IsPrefix(Append(StatesFed, new_state), LifecycleWithDuplicate)
    /\ \E sample \in SamplesAt(thread_table, th, new_state) :
          notified(thread_table, th, new_state, sample)
    /\ UNCHANGED base_running

InitThread == InitNoCollector

NextThread ==
    \/ \E th \in RubyThreads, s \in ThreadStates : thread_event(th, s)
    \/ time_passes

SpecThread == InitThread /\ [][NextThread]_vars

\* the markers of a type in a marker table
MarkersOf(list, type) == {k \in 1..Len(list) : list[k].type = type}

\* C12 as claimed: the notifications STARTED, RUNNING, SUSPENDED, READY,
\* RUNNING, STOPPED for an unseen thread are all taken, and leave at most one
\* "stalled" interval marker, two "running" interval markers and one
\* "suspended" interval marker, tagged with the stack index captured at the
\* SUSPENDED notification.
C12_LifecycleWithoutReady ==
    IsPrefix(StatesFed, LifecycleWithoutReady) =>
        /\ ~crashed
        /\ StatesFed = LifecycleWithoutReady =>
              LET list == thread_table[1].markers
              IN  /\ Cardinality(MarkersOf(list, MARKER_THREAD_STALLED)) <= 1
                  /\ Cardinality(MarkersOf(list, MARKER_THREAD_RUNNING)) = 2
                  /\ Cardinality(MarkersOf(list, MARKER_THREAD_SUSPENDED)) = 1
                  /\ \A k \in MarkersOf(list, MARKER_THREAD_SUSPENDED) :
                        list[k].stack_index = fed[3].index

\* the RUNNING notifications fed that came some time after the one before
StalledFed == {k \in 2..Len(fed) : /\ fed[k].state = RUNNING
                                    /\ fed[k].at # fed[k - 1].at}

\* C12, amended: the notifications STARTED, READY, RUNNING, SUSPENDED, READY,
\* RUNNING, STOPPED for an unseen thread are all taken and leave in its marker
\* table one "stalled" interval marker for each of the two RUNNING
\* notifications that came after a non-zero time, exactly two "running"
\* interval markers, and exactly one "suspended" interval marker, tagged with
\* the stack index captured at the SUSPENDED notification.
C12_Lifecycle ==
    IsPrefix(StatesFed, Lifecycle) =>
        /\ ~crashed
        /\ StatesFed = Lifecycle =>
              LET list == thread_table[1].markers
                  stalls == MarkersOf(list, MARKER_THREAD_STALLED)
                  runs == MarkersOf(list, MARKER_THREAD_RUNNING)
                  suspends == MarkersOf(list, MARKER_THREAD_SUSPENDED)
              IN  /\ Cardinality(stalls) = Cardinality(StalledFed)
                  /\ Cardinality(runs) = 2
                  /\ Cardinality(suspends) = 1
                  /\ \A k \in stalls \cup runs \cup suspends :
                        list[k].phase = INTERVAL
                  /\ \A k \in suspends :
                        /\ list[k].stack_index = fed[4].index
                        /\ list[k].timestamp = fed[4].at
                        /\ list[k].finish = fed[5].at

\* the whole lifecycle was fed, the thread was suspended on a stack of the
\* tree, and one of its two waits for the GVL took no time
C12_Witness ==
    /\ StatesFed = Lifecycle
    /\ fed[4].index >= 0
    /\ Cardinality(StalledFed) = 1
    /\ thread_table[1].state = STOPPED

\* the notification just fed was for new_state
JustFed(new_state) ==
    /\ fed' # fed
    /\ fed'[Len(fed')].state = new_state

\* C13: a SUSPENDED notification for a thread that is already SUSPENDED
\* appends no marker and leaves the state, the state-changed-at and the
\* stack-index-at-suspend of the thread record as they were.
C13_DuplicateSuspended ==
    [][(/\ thread_table # <<>>
        /\ thread_table[1].state = SUSPENDED
        /\ JustFed(SUSPENDED))
       => /\ thread_table'[1].markers = thread_table[1].markers
          /\ thread_table'[1].state = thread_table[1].state
          /\ thread_table'[1].state_changed_at
                = thread_table[1].state_changed_at
          /\ thread_table'[1].stack_on_suspend_idx
                = thread_table[1].stack_on_suspend_idx]_vars

\* C14: once the state of a thread is STOPPED, a notification for it leaves
\* the state, the state-changed-at, the started-at, the stopped-at, the
\* stack-index-at-suspend, the translator cache, the marker table and the
\* sample list of its record as they were.
C14_StoppedIsFrozen ==
    [][(/\ thread_table # <<>>
        /\ thread_table[1].state = STOPPED
        /\ fed' # fed)
       => \A field \in {"state", "state_changed_at", "started_at",
                        "stopped_at", "stack_on_suspend_idx", "translator",
                        "markers", "samples"} :
              thread_table'[1][field] = thread_table[1][field]]_vars

(***************************************************************************)
(* sample_thread_run: the loop of the sampler thread of one collector,     *)
(* by the clock.  The for loop visits the threads of thread_table under    *)
(* the mutex of the table; the capture of a RUNNING thread (the handshake  *)
(* of Spec) is one step here, and leaves any RawSample that                *)
(* RawSample::sample() can.                                                *)
(*   SpecSchedule  the loop alone: the table stays empty                   *)
(*   SpecTick      the loop over the table that the first notifications    *)
(*                 of its threads have made                                *)
(***************************************************************************)
\* the intervals a collector is made with, in clock units;
\* Vernier::Collector.new takes any unsigned interval, 0 included
Intervals == {0, 1, 2}

\* the ticks the loop makes
MaxTicks == 2

\* what a capture in a tick can leave in the LiveSample
TickSamples == SuspendSamples

next_schedule_without_restart(schedule, complete, step) == schedule + step

\* next_sample_schedule += interval;
\* if (next_sample_schedule < sample_complete)
\*     next_sample_schedule = sample_complete + interval;
\* (uint64_t nanoseconds: no overflow within centuries of uptime)
next_schedule(schedule, complete, step) ==
    IF schedule + step < complete THEN complete + step ELSE schedule + step

\* TimeStamp::SleepUntil(target_time) can return
SleepUntil_returns(target_time, now) ==
    target_time = 0 \/ ~(target_time > now)

\* TimeCollector::record_sample(sample, time, thread, category)
TimeCollector_record_sample(fl, thread, sample, time, category) ==
    IF ~empty(sample)
    THEN LET r == translate(fl, thread.translator, sample)
         IN  [fl |-> r.fl,
              thread |-> [thread EXCEPT
                  !.translator = r.tr,
                  !.samples = SampleList_record_sample(
                                  @, r.index, time, thread.pthread_id,
                                  category)]]
    ELSE [fl |-> fl, thread |-> thread]

thread_is_sampled_or_suspended_without_stack(thread) ==
    \/ thread.state = RUNNING
    \/ thread.state = SUSPENDED /\ thread.stack_on_suspend_idx < 0

\* if (thread.state == Thread::State::RUNNING)
thread_is_sampled(thread) == thread.state = RUNNING

same_thread_again(i) == i

\* for (auto &thread : threads.list)
next_thread(i) == i + 1

LoopUnchanged ==
    UNCHANGED <<translator, returned, last_call, profilerVars, clock,
                sampleListVars, fed, gcVars, set_state_call, marker_mutex,
                gc_call, callback>>

\* the sampler thread, as a holder of mutexes: no Ruby thread
SamplerThread == Cardinality(TableThreads) + 1

mutex_lock_returns_at_once(m) == TRUE

\* std::mutex::lock() and the constructor of std::lock_guard return when no
\* thread holds the mutex
mutex_lock_returns(m) == m = 0

\* TimeStamp next_sample_schedule = TimeStamp::Now();
sample_thread_run_entry ==
    /\ ~crashed
    /\ loop_pc = "entry"
    /\ next_sample_schedule' = clock
    /\ loop_pc' = "while"
    /\ UNCHANGED <<root_stack_node, stack_node_list, thread_table, loop_iter,
                   interval, sample_start, sample_complete, tick_log, visits,
                   table_mutex>>
    /\ LoopUnchanged

\* while (running): sample_start = Now(); threads.mutex.lock()
tick_begin ==
    /\ ~crashed
    /\ loop_pc = "while"
    /\ Len(tick_log) < MaxTicks
    /\ mutex_lock_returns(table_mutex)
    /\ table_mutex' = SamplerThread
    /\ sample_start' = clock
    /\ loop_pc' = "for"
    /\ loop_iter' = 1
    /\ tick_log' = Append(tick_log, [start |-> clock, complete |-> -1,
                                     before |-> next_sample_schedule,
                                     after |-> -1])
    /\ visits' = <<>>
    /\ UNCHANGED <<root_stack_node, stack_node_list, thread_table, interval,
                   next_sample_schedule, sample_complete>>
    /\ LoopUnchanged

\* one iteration of the for loop
tick_visit ==
    /\ ~crashed
    /\ loop_pc = "for"
    /\ loop_iter <= Len(thread_table)
    /\ LET thread == thread_table[loop_iter]
       IN  IF thread_is_sampled(thread)
           THEN \E sample \in TickSamples :
                    \E r \in {IF sample.gc
                              THEN [fl |-> FL, thread |-> thread]
                              ELSE TimeCollector_record_sample(
                                       FL, thread, sample, sample_start,
                                       CATEGORY_NORMAL)} :
                        /\ Len(r.fl.list) <= MaxNodes
                        /\ root_stack_node' = r.fl.root
                        /\ stack_node_list' = r.fl.list
                        /\ thread_table' =
                               [thread_table EXCEPT ![loop_iter] = r.thread]
                        /\ visits' = Append(visits,
                               [at |-> loop_iter, signalled |-> TRUE,
                                sample |-> sample])
           ELSE /\ thread_table' =
                       IF thread.state = SUSPENDED
                       THEN [thread_table EXCEPT ![loop_iter].samples =
                               SampleList_record_sample(
                                   @, thread.stack_on_suspend_idx,
                                   sample_start, thread.pthread_id,
                                   CATEGORY_IDLE)]
                       ELSE thread_table
                /\ visits' = Append(visits,
                       [at |-> loop_iter, signalled |-> FALSE,
                        sample |-> EmptySample])
                /\ UNCHANGED <<root_stack_node, stack_node_list>>
    /\ loop_iter' = next_thread(loop_iter)
    /\ UNCHANGED <<loop_pc, interval, next_sample_schedule, sample_start,
                   sample_complete, tick_log, table_mutex>>
    /\ LoopUnchanged

\* threads.mutex.unlock(); sample_complete = Now(); the next schedule
tick_complete ==
    /\ ~crashed
    /\ loop_pc = "for"
    /\ loop_iter > Len(thread_table)
    /\ sample_complete' = clock
    /\ next_sample_schedule' =
           next_schedule(next_sample_schedule, clock, interval)
    /\ tick_log' = [tick_log EXCEPT ![Len(tick_log)] =
                       [@ EXCEPT !.complete = clock,
                                 !.after = next_sample_schedule']]
    /\ loop_pc' = "sleep"
    /\ table_mutex' = 0
    /\ UNCHANGED <<root_stack_node, stack_node_list, thread_table, loop_iter,
                   interval, sample_start, visits>>
    /\ LoopUnchanged

\* TimeStamp::SleepUntil(next_sample_schedule) returns
tick_sleep ==
    /\ ~crashed
    /\ loop_pc = "sleep"
    /\ SleepUntil_returns(next_sample_schedule, clock)
    /\ loop_pc' = "while"
    /\ UNCHANGED <<root_stack_node, stack_node_list, thread_table, loop_iter,
                   interval, next_sample_schedule, sample_start,
                   sample_complete, tick_log, visits, table_mutex>>
    /\ LoopUnchanged

InitLoop ==
    /\ InitTree
    /\ InitProfiler
    /\ \A c \in Collectors : ~running[c]
    /\ \E i \in Intervals : ComponentsAtRest(1, i, <<>>)

NextSchedule ==
    \/ sample_thread_run_entry
    \/ tick_begin
    \/ tick_complete
    \/ tick_sleep
    \/ time_passes

SpecSchedule == InitLoop /\ [][NextSchedule]_vars

\* the threads of the table the loop visits
MaxThreads == 2

\* what the VM has told of a thread when the sampler thread begins: one
\* notification, or RUNNING and then SUSPENDED on some stack
ThreadHistories ==
    { <<[state |-> s, sample |-> EmptySample]>> : s \in ThreadStates }
    \cup { <<[state |-> RUNNING, sample |-> EmptySample],
             [state |-> SUSPENDED, sample |-> sample]>> :
               sample \in SuspendSamples }

\* the table and frame list after the notifications h of thread th, made at
\* the instant now
RECURSIVE TableAfter(_, _, _, _)
TableAfter(t, th, h, now) ==
    IF h = <<>> THEN t
    ELSE LET r == ThreadTable_set_state_at(t.list, t.fl, Head(h).state, th,
                                           th, Head(h).sample, now)
         IN  TableAfter([list |-> r.list, fl |-> r.fl], th, Tail(h), now)

\* the same for the threads n, n - 1, ..., 1 with the histories hs
RECURSIVE TableOf(_, _, _)
TableOf(hs, n, now) ==
    IF n = 0 THEN [list |-> <<>>, fl |-> [root |-> RootNode, list |-> <<>>]]
    ELSE TableAfter(TableOf(hs, n - 1, now), n, hs[n], now)

\* the sampler thread begins one instant before the clock of the model
\* stops: two ticks begin at the same instant or at different ones
InitTick ==
    /\ InitProfiler
    /\ \A c \in Collectors : ~running[c]
    /\ translator = [t \in Translators |-> NewTranslator]
    /\ returned = {}
    /\ last_call = NoCall
    /\ \E i \in Intervals, hs \in [1..MaxThreads -> ThreadHistories] :
          \E t \in {TableOf(hs, MaxThreads, MaxClock - 1)} :
              /\ root_stack_node = t.fl.root
              /\ stack_node_list = t.fl.list
              /\ ComponentsAtRest(MaxClock - 1, i, t.list)

NextTick ==
    \/ sample_thread_run_entry
    \/ tick_begin
    \/ tick_visit
    \/ tick_complete
    \/ tick_sleep
    \/ time_passes

SpecTick == InitTick /\ [][NextTick]_vars

\* C15: the schedule after a tick is the schedule before it plus the
\* interval, unless that is earlier than the completion of the tick, and
\* then it is the completion plus the interval; it is never earlier than the
\* completion, and the next tick does not begin before it, so that a slow
\* tick is followed by no burst of ticks that catch up.
C15_DriftCompensation ==
    \A k \in 1..Len(tick_log) :
        LET t == tick_log[k]
        IN  /\ t.complete # -1 =>
                 /\ t.after = IF t.before + interval < t.complete
                              THEN t.complete + interval
                              ELSE t.before + interval
                 /\ t.after >= t.complete
            /\ k > 1 =>
                 /\ t.before = tick_log[k - 1].after
                 /\ t.start >= tick_log[k - 1].after
                 /\ t.start >= tick_log[k - 1].complete

\* a tick that fell behind its schedule, and the tick after it
C15_Witness ==
    /\ Len(tick_log) >= 2
    /\ interval > 0
    /\ tick_log[1].before + interval < tick_log[1].complete
    /\ tick_log[2].start = tick_log[1].complete + interval

\* the step is an iteration of the for loop
Visited == Len(visits') = Len(visits) + 1

\* the frame list after the step
FLAfter == [root |-> root_stack_node', list |-> stack_node_list']

\* C16 as claimed: an iteration of the for loop on a RUNNING thread makes one
\* capture of that thread; if the sample is GC-flagged nothing is recorded,
\* otherwise the sample is translated and one CATEGORY_NORMAL sample with the
\* timestamp of the tick start is recorded in the thread's sample list.
C16_RunningThreadSampled ==
    [][(Visited /\ thread_table[loop_iter].state = RUNNING) =>
        LET v == visits'[Len(visits')]
            before == thread_table[loop_iter]
            after == thread_table'[loop_iter]
        IN  /\ v.signalled
            /\ v.at = Len(visits')
            /\ after.samples =
                 IF v.sample.gc THEN before.samples
                 ELSE SampleList_record_sample(
                          before.samples, stack_index(FLAfter, v.sample).index,
                          sample_start, before.pthread_id, CATEGORY_NORMAL)
       ]_vars

\* C16, amended: an iteration of the for loop on a RUNNING thread makes one
\* capture of that thread; if the sample is GC-flagged or empty nothing is
\* recorded, otherwise the sample is translated and one CATEGORY_NORMAL
\* sample with the timestamp of the tick start is recorded in the thread's
\* sample list.
C16_RunningThreadSampledUnlessEmpty ==
    [][(Visited /\ thread_table[loop_iter].state = RUNNING) =>
        LET v == visits'[Len(visits')]
            before == thread_table[loop_iter]
            after == thread_table'[loop_iter]
        IN  /\ v.signalled
            /\ v.at = Len(visits')
            /\ after.samples =
                 IF v.sample.gc \/ v.sample.len = 0 THEN before.samples
                 ELSE SampleList_record_sample(
                          before.samples, stack_index(FLAfter, v.sample).index,
                          sample_start, before.pthread_id, CATEGORY_NORMAL)
       ]_vars

\* both threads were RUNNING in a tick: one was captured on a stack, which
\* was recorded, and one gave an empty sample that is not GC-flagged
C16_Witness ==
    /\ Len(visits) = 2
    /\ visits[1].signalled /\ visits[1].sample.len > 0
    /\ visits[2].signalled /\ visits[2].sample.len = 0 /\ ~visits[2].sample.gc
    /\ thread_table[1].samples # <<>>
    /\ thread_table[2].samples = <<>>

\* C17: an iteration of the for loop on a SUSPENDED thread records one
\* CATEGORY_IDLE sample with the stack index stored at suspend and sends no
\* signal; on a STARTED, READY or STOPPED thread it records nothing; a
\* capture signal is sent only to a thread that is RUNNING when it is sent.
C17_SuspendedThreadIdle ==
    [][Visited =>
        LET v == visits'[Len(visits')]
            before == thread_table[loop_iter]
            after == thread_table'[loop_iter]
        IN  /\ v.signalled <=> before.state = RUNNING
            /\ before.state = SUSPENDED =>
                 /\ after.samples # <<>>
                 /\ after.samples[Len(after.samples)].category = CATEGORY_IDLE
                 /\ after.samples[Len(after.samples)].stack
                       = before.stack_on_suspend_idx
                 /\ WeightOfFirst(after.samples, Len(after.samples))
                       = WeightOfFirst(before.samples, Len(before.samples)) + 1
            /\ before.state \in {STARTED, READY, STOPPED} =>
                 after.samples = before.samples
            /\ \A i \in 1..Len(thread_table) :
                 i # loop_iter => thread_table'[i] = thread_table[i]
       ]_vars

\* a tick has passed a thread suspended on a stack of the tree, and a thread
\* that is READY
C17_Witness ==
    /\ Len(visits) = 2
    /\ ~visits[1].signalled
    /\ thread_table[1].state = SUSPENDED
    /\ thread_table[1].stack_on_suspend_idx >= 0
    /\ thread_table[1].samples # <<>>
    /\ thread_table[1].samples[1].category = CATEGORY_IDLE
    /\ thread_table[2].state = READY
    /\ thread_table[2].samples = <<>>

\* C20 as claimed: the entries of each thread's sample list are strictly
\* ordered in time, each later than the one before it, and a thread has
\* received no more recordings than ticks have begun.
C20_StrictlyTimeOrdered ==
    \A i \in 1..Len(thread_table) :
        LET list == thread_table[i].samples
        IN  /\ \A k \in 2..Len(list) :
                 list[k].timestamp > list[k - 1].timestamp
            /\ WeightOfFirst(list, Len(list)) <= Len(tick_log)

\* C20, amended: the entries of each thread's sample list are ordered in
\* time in tick order, each no earlier than the one before it (and later
\* when the clock has moved between the two ticks), and a thread has
\* received no more recordings than ticks have begun.
C20_TimeOrdered ==
    \A i \in 1..Len(thread_table) :
        LET list == thread_table[i].samples
        IN  /\ \A k \in 2..Len(list) :
                 list[k].timestamp >= list[k - 1].timestamp
            /\ \A k \in 1..Len(list) :
                 \E t \in 1..Len(tick_log) :
                     list[k].timestamp = tick_log[t].start
            /\ WeightOfFirst(list, Len(list)) <= Len(tick_log)

\* a thread has one entry from each of two ticks, the second tick later
\* than the first
C20_Witness ==
    /\ Len(tick_log) = 2
    /\ Len(thread_table[1].samples) = 2
    /\ thread_table[1].samples[2].timestamp
          > thread_table[1].samples[1].timestamp

(***************************************************************************)
(* Empty samples on the recording paths.  The sampler tick is tick_visit   *)
(* of SpecTick; manual sampling is CustomCollector::sample, which walks    *)
(* the sample with frame_list.stack_index before it records: the           *)
(* StackIndexCall of SpecTree.                                             *)
(***************************************************************************)
\* C18: recording a captured sample raises no error, whether the sample is
\* empty or not: the frame_list.stack_index(sample) of
\* CustomCollector::sample does not throw.
C18_EmptySampleIsNoError ==
    last_call.op = "stack_index" => last_call.index # Thrown

(***************************************************************************)
(* SpecGC: the gc_markers of one collector under the GC events of the VM,  *)
(* in any order.                                                           *)
(***************************************************************************)
MARKER_GC_START == "MARKER_GC_START"
MARKER_GC_END_MARK == "MARKER_GC_END_MARK"
MARKER_GC_END_SWEEP == "MARKER_GC_END_SWEEP"
MARKER_GC_PAUSE == "MARKER_GC_PAUSE"

GC_START == "RUBY_INTERNAL_EVENT_GC_START"
GC_END_MARK == "RUBY_INTERNAL_EVENT_GC_END_MARK"
GC_END_SWEEP == "RUBY_INTERNAL_EVENT_GC_END_SWEEP"
GC_ENTER == "RUBY_INTERNAL_EVENT_GC_ENTER"
GC_EXIT == "RUBY_INTERNAL_EVENT_GC_EXIT"
GCEvents == {GC_START, GC_END_MARK, GC_END_SWEEP, GC_ENTER, GC_EXIT}

\* the GC events given to the collector
MaxGCEvents == 4

record_gc_entered_with_marker(table, now) ==
    [list |-> MarkerTable_record(table.list, MARKER_GC_START, now),
     last_gc_entry |-> now]

\* GCMarkerTable::record_gc_entered
record_gc_entered(table, now) == [table EXCEPT !.last_gc_entry = now]

\* GCMarkerTable::record_gc_leave
record_gc_leave(table, now) ==
    [table EXCEPT !.list = MarkerTable_record_interval(
                               @, MARKER_GC_PAUSE, table.last_gc_entry, now,
                               -1)]

\* TimeCollector::internal_gc_event_cb
internal_gc_event_cb(event) ==
    /\ ~crashed
    /\ Len(gc_fed) < MaxGCEvents
    /\ gc_markers' =
         IF event = GC_START
           THEN [gc_markers EXCEPT !.list =
                    MarkerTable_record(@, MARKER_GC_START, clock)]
         ELSE IF event = GC_END_MARK
           THEN [gc_markers EXCEPT !.list =
                    MarkerTable_record(@, MARKER_GC_END_MARK, clock)]
         ELSE IF event = GC_END_SWEEP
           THEN [gc_markers EXCEPT !.list =
                    MarkerTable_record(@, MARKER_GC_END_SWEEP, clock)]
         ELSE IF event = GC_ENTER
           THEN record_gc_entered(gc_markers, clock)
         ELSE record_gc_leave(gc_markers, clock)
    /\ gc_fed' = Append(gc_fed, [event |-> event, at |-> clock])
    /\ UNCHANGED <<treeVars, profilerVars, clock, sampleListVars, threadVars,
                   loopVars, lockVars>>

InitGC == InitNoCollector

NextGC ==
    \/ \E event \in GCEvents : internal_gc_event_cb(event)
    \/ time_passes

SpecGC == InitGC /\ [][NextGC]_vars

\* the GC enter events fed
EntersFed == {k \in 1..Len(gc_fed) : gc_fed[k].event = GC_ENTER}

\* the last of a non-empty set of positions
LastOf(S) == CHOOSE k \in S : \A j \in S : j <= k

\* C19: a GC enter event appends no marker; a GC exit event that follows a
\* GC enter event appends exactly one marker, an INTERVAL marker of type GC
\* pause that starts at the time of the latest enter event and ends at the
\* time of the exit.
C19_GCPauseFolding ==
    [][(Len(gc_fed') = Len(gc_fed) + 1) =>
        LET e == gc_fed'[Len(gc_fed')]
        IN  /\ e.event = GC_ENTER => gc_markers'.list = gc_markers.list
            /\ (e.event = GC_EXIT /\ EntersFed # {}) =>
                 gc_markers'.list = Append(gc_markers.list,
                     [type |-> MARKER_GC_PAUSE, phase |-> INTERVAL,
                      timestamp |-> gc_fed[LastOf(EntersFed)].at,
                      finish |-> e.at, stack_index |-> -1])
       ]_vars

\* an enter, two events of the GC's phases and the exit, some time after the
\* enter: the table holds the two instants and one pause from enter to exit
C19_Witness ==
    /\ Len(gc_fed) = 4
    /\ gc_fed[1].event = GC_ENTER
    /\ gc_fed[2].event = GC_START
    /\ gc_fed[3].event = GC_END_SWEEP
    /\ gc_fed[4].event = GC_EXIT
    /\ gc_fed[4].at > gc_fed[1].at
    /\ Len(gc_markers.list) = 3
    /\ gc_markers.list[3].type = MARKER_GC_PAUSE
    /\ gc_markers.list[3].timestamp = gc_fed[1].at
    /\ gc_markers.list[3].finish = gc_fed[4].at

(***************************************************************************)
(* SpecMutex: one ThreadTable under its mutex.  The sampler thread takes    *)
(* ThreadTable::mutex for the for loop of a tick; ThreadTable::set_state,   *)
(* called by the event callbacks on the Ruby threads of TableThreads, takes *)
(* it with a lock_guard for its whole body.  A call of set_state is three   *)
(* steps: the lock, the body, and the unlock at the end of the scope.       *)
(***************************************************************************)
\* the notifications given to the table, those in progress included
MaxNotifications == 3

InSetState == {th \in TableThreads : set_state_call[th].pc # "idle"}

SetStateUnchanged ==
    UNCHANGED <<translator, returned, last_call, signalVars, collectorVars,
                samplerVars, vm_thread, historyVars, clock, sampleListVars,
                loopVars, gcVars, marker_mutex, gc_call, callback>>

\* const std::lock_guard<std::mutex> lock(mutex);
set_state_lock(th, new_state) ==
    /\ ~crashed
    /\ set_state_call[th].pc = "idle"
    /\ Len(fed) + Cardinality(InSetState) < MaxNotifications
    /\ mutex_lock_returns(table_mutex)
    /\ table_mutex' = th
    /\ set_state_call' = [set_state_call EXCEPT
                             ![th] = [pc |-> "locked", new_state |-> new_state]]
    /\ UNCHANGED <<root_stack_node, stack_node_list, thread_table, fed,
                   crashed>>
    /\ SetStateUnchanged

\* the for loop over the list and the emplace_back after it
set_state_body(th) ==
    /\ ~crashed
    /\ set_state_call[th].pc = "locked"
    /\ \E new_state \in {set_state_call[th].new_state} :
       \E sample \in IF new_state = SUSPENDED /\ ThreadPos(thread_table, th) # 0
                     THEN SuspendSamples ELSE {EmptySample} :
       \E r \in {ThreadTable_set_state_at(thread_table, FL, new_state, th, th,
                                          sample, clock)} :
          /\ Len(r.fl.list) <= MaxNodes
          /\ fed' = Append(fed, [state |-> new_state, at |-> clock,
                                 index |-> r.index, thread |-> th])
          /\ IF r.ok
             THEN /\ thread_table' = r.list
                  /\ root_stack_node' = r.fl.root
                  /\ stack_node_list' = r.fl.list
                  /\ UNCHANGED crashed
             ELSE /\ crashed' = TRUE
                  /\ UNCHANGED <<thread_table, root_stack_node,
                                 stack_node_list>>
    /\ set_state_call' = [set_state_call EXCEPT ![th].pc = "return"]
    /\ UNCHANGED table_mutex
    /\ SetStateUnchanged

\* the lock_guard goes out of scope
set_state_unlock(th) ==
    /\ ~crashed
    /\ set_state_call[th].pc = "return"
    /\ table_mutex' = 0
    /\ set_state_call' = [set_state_call EXCEPT ![th] = NoSetState]
    /\ UNCHANGED <<root_stack_node, stack_node_list, thread_table, fed,
                   crashed>>
    /\ SetStateUnchanged

InitMutex == InitLoop

NextMutex ==
    \/ sample_thread_run_entry
    \/ tick_begin
    \/ tick_visit
    \/ tick_complete
    \/ tick_sleep
    \/ \E th \in TableThreads, s \in ThreadStates : set_state_lock(th, s)
    \/ \E th \in TableThreads : set_state_body(th)
    \/ \E th \in TableThreads : set_state_unlock(th)

SpecMutex == InitMutex /\ [][NextMutex]_vars

\* the registry, a thread's state, translator or sample list, or the tree
\* changes in this step
TableMutated ==
    \/ thread_table' # thread_table
    \/ root_stack_node' # root_stack_node
    \/ stack_node_list' # stack_node_list

\* C21: every change of the thread registry, of the stack tree, and of a
\* thread's state, translator and sample list is a step of the thread that
\* holds the mutex of the ThreadTable: of the sampler thread in its for loop,
\* or of the Ruby thread whose ThreadTable::set_state is in progress.
C21_MutexDiscipline ==
    [][TableMutated =>
        \/ /\ table_mutex = SamplerThread
           /\ loop_iter' # loop_iter
        \/ \E th \in TableThreads :
              /\ table_mutex = th
              /\ set_state_call'[th] # set_state_call[th]
      ]_vars

\* the sampler thread holds the mutex in its for loop and has recorded a
\* sample of a thread that a notification has registered, while another
\* thread stands before the lock of its ThreadTable::set_state
C21_Witness ==
    /\ table_mutex = SamplerThread
    /\ loop_pc = "for"
    /\ \E i \in 1..Len(thread_table) : thread_table[i].samples # <<>>
    /\ stack_node_list # <<>>
    /\ Len(thread_table) = 2

(***************************************************************************)
(* SpecMarkerMutex: the appends to gc_markers, step by step.               *)
(* MarkerTable::record takes the mutex of the table with a lock_guard,     *)
(* pushes the marker and releases the mutex at the end of its scope;       *)
(* GCMarkerTable::record_gc_entered and record_gc_leave are one statement  *)
(* each.  The VM runs one GC hook at a time, on the Ruby thread that is in *)
(* the GC.                                                                 *)
(***************************************************************************)
\* the events for which internal_gc_event_cb calls gc_markers.record
RecordedGCEvents == {GC_START, GC_END_MARK, GC_END_SWEEP}

\* Marker::Type of the marker recorded for an event
MarkerOfEvent(event) ==
    IF event = GC_START THEN MARKER_GC_START
    ELSE IF event = GC_END_MARK THEN MARKER_GC_END_MARK
    ELSE MARKER_GC_END_SWEEP

GCCallUnchanged ==
    UNCHANGED <<treeVars, profilerVars, clock, sampleListVars, threadVars,
                loopVars, table_mutex, set_state_call, callback>>

\* internal_gc_event_cb calls gc_markers.record(type), whose lock_guard takes
\* the mutex
gc_record_lock(th, event) ==
    /\ ~crashed
    /\ gc_call.pc = "idle"
    /\ Len(gc_fed) < MaxGCEvents
    /\ mutex_lock_returns(marker_mutex)
    /\ marker_mutex' = th
    /\ gc_call' = [pc |-> "locked", event |-> event]
    /\ UNCHANGED gcVars
    /\ GCCallUnchanged

\* list.push_back({ type, Marker::INSTANT, TimeStamp::Now(), ... })
gc_record_push ==
    /\ ~crashed
    /\ gc_call.pc = "locked"
    /\ gc_markers' = [gc_markers EXCEPT !.list =
                         MarkerTable_record(@, MarkerOfEvent(gc_call.event),
                                            clock)]
    /\ gc_fed' = Append(gc_fed, [event |-> gc_call.event, at |-> clock])
    /\ gc_call' = [gc_call EXCEPT !.pc = "return"]
    /\ UNCHANGED marker_mutex
    /\ GCCallUnchanged

\* the lock_guard of record goes out of scope
gc_record_unlock ==
    /\ ~crashed
    /\ gc_call.pc = "return"
    /\ marker_mutex' = 0
    /\ gc_call' = NoGCCall
    /\ UNCHANGED gcVars
    /\ GCCallUnchanged

\* internal_gc_event_cb calls gc_markers.record_gc_entered()
gc_entered ==
    /\ ~crashed
    /\ gc_call.pc = "idle"
    /\ Len(gc_fed) < MaxGCEvents
    /\ gc_markers' = record_gc_entered(gc_markers, clock)
    /\ gc_fed' = Append(gc_fed, [event |-> GC_ENTER, at |-> clock])
    /\ UNCHANGED <<marker_mutex, gc_call>>
    /\ GCCallUnchanged

\* internal_gc_event_cb calls gc_markers.record_gc_leave()
gc_leave ==
    /\ ~crashed
    /\ gc_call.pc = "idle"
    /\ Len(gc_fed) < MaxGCEvents
    /\ gc_markers' = record_gc_leave(gc_markers, clock)
    /\ gc_fed' = Append(gc_fed, [event |-> GC_EXIT, at |-> clock])
    /\ UNCHANGED <<marker_mutex, gc_call>>
    /\ GCCallUnchanged

InitMarkerMutex == InitNoCollector

NextMarkerMutex ==
    \/ \E th \in TableThreads, event \in RecordedGCEvents :
          gc_record_lock(th, event)
    \/ gc_record_push
    \/ gc_record_unlock
    \/ gc_entered
    \/ gc_leave
    \/ time_passes

SpecMarkerMutex == InitMarkerMutex /\ [][NextMarkerMutex]_vars

\* C22: every append to a MarkerTable, that of the GC pause interval marker
\* included, is made while the thread that appends holds the mutex of the
\* table.
C22_AppendsUnderMutex ==
    [][gc_markers'.list # gc_markers.list => marker_mutex # 0]_vars

\* the nodes of the list before a step are the same nodes, at the same
\* positions, after it
NodesKept ==
    /\ Len(stack_node_list') >= Len(stack_node_list)
    /\ \A i \in 1..Len(stack_node_list) :
          /\ stack_node_list'[i].frame = stack_node_list[i].frame
          /\ stack_node_list'[i].parent = stack_node_list[i].parent
          /\ stack_node_list'[i].index = stack_node_list[i].index

\* C23: the index of a node is its position in the node list and the parent
\* of a node other than the root has a smaller index; a stack_index or
\* translate call, and the next_stack_node calls it makes, only appends to
\* the list: every node that exists keeps its position, its index, its frame
\* and its parent.
C23_StableIndices ==
    /\ [](\A i \in 1..Len(stack_node_list) :
             /\ stack_node_list[i].index = i - 1
             /\ stack_node_list[i].parent >= -1
             /\ stack_node_list[i].parent < stack_node_list[i].index)
    /\ [][NodesKept]_vars

\* the tree is as large as it gets, with a node below a node that is not the
\* root, and the call just made found all its nodes there
C23_Witness ==
    /\ Len(stack_node_list) = MaxNodes
    /\ \E i \in 1..Len(stack_node_list) : stack_node_list[i].parent >= 0
    /\ last_call.op = "translate"
    /\ last_call.case = "prefix"

\* the identities that have a record in the table
Registered_threads == {thread_table[i].ruby_thread : i \in 1..Len(thread_table)}

\* the body of a ThreadTable::set_state ran in this step
Notified == Len(fed') = Len(fed) + 1

\* C24: a notification for an identity without a record appends exactly one
\* record to the registry, for that identity and in the notified state; a
\* notification for an identity that has a record appends none; no two
\* records of the registry are for the same identity, and no step removes a
\* record or moves it.
C24_ThreadRegistry ==
    /\ [](\A i, j \in 1..Len(thread_table) :
             thread_table[i].ruby_thread = thread_table[j].ruby_thread
                 => i = j)
    /\ [][/\ Len(thread_table') >= Len(thread_table)
          /\ \A i \in 1..Len(thread_table) :
                thread_table'[i].ruby_thread = thread_table[i].ruby_thread
          /\ Notified =>
                LET e == fed'[Len(fed')]
                IN  IF e.thread \in Registered_threads
                    THEN Len(thread_table') = Len(thread_table)
                    ELSE /\ Len(thread_table') = Len(thread_table) + 1
                         /\ thread_table'[Len(thread_table')].ruby_thread
                               = e.thread
                         /\ thread_table'[Len(thread_table')].state = e.state
         ]_vars

\* two identities have a record each and one of them was notified again
C24_Witness ==
    /\ Len(thread_table) = 2
    /\ Len(fed) = 3
    /\ fed[3].thread \in {fed[1].thread, fed[2].thread}
    /\ ~crashed

(***************************************************************************)
(* The transitions of Thread::set_state, one by one, under SpecThread: the *)
(* notifications of one thread, in any order, at any times.                *)
(***************************************************************************)
\* the record of the thread before and after the step, and the notification
\* the step has fed
Before == thread_table[1]
After == thread_table'[1]
Notification == fed'[Len(fed')]

\* a notification for new_state reaches the record in one of the states
Transition(states, new_state) ==
    /\ thread_table # <<>>
    /\ Before.state \in states
    /\ JustFed(new_state)

\* an interval marker without a stack
IntervalMarker(type, from, to) ==
    [type |-> type, phase |-> INTERVAL, timestamp |-> from, finish |-> to,
     stack_index |-> -1]

\* an instantaneous marker
InstantMarker(type, now) ==
    [type |-> type, phase |-> INSTANT, timestamp |-> now, finish |-> 0,
     stack_index |-> -1]

\* C25: a RUNNING notification for a thread in state READY or RUNNING sets
\* the native handle of the record to the notifying thread's, the state to
\* RUNNING and the state-changed-at to the time of the transition, and
\* appends one "stalled" interval marker from the previous state-changed-at
\* to that time if and only if the two times differ.
C25_Running ==
    [][Transition({READY, RUNNING}, RUNNING) =>
        /\ ~crashed'
        /\ After.pthread_id = Before.ruby_thread
        /\ After.state = RUNNING
        /\ After.state_changed_at = Notification.at
        /\ After.markers =
              IF Before.state_changed_at # Notification.at
              THEN Append(Before.markers,
                          IntervalMarker(MARKER_THREAD_STALLED,
                                         Before.state_changed_at,
                                         Notification.at))
              ELSE Before.markers
      ]_vars

\* a thread that became READY got the GVL some time later, with one
\* "stalled" marker, and was notified RUNNING once more at the same instant,
\* with none
C25_Witness ==
    /\ StatesFed = <<READY, RUNNING, RUNNING>>
    /\ fed[2].at # fed[1].at
    /\ fed[3].at = fed[2].at
    /\ Len(thread_table[1].markers) = 1
    /\ thread_table[1].pthread_id # 0

\* C26: a READY notification for a thread in state SUSPENDED appends exactly
\* one "suspended" interval marker from the previous state-changed-at to the
\* time of the transition, with the stack index the record holds from its
\* suspension; for a thread in state RUNNING it appends exactly one "running"
\* interval marker for that span; for a thread in state STARTED it appends
\* none; in the three cases the state becomes READY and the state-changed-at
\* that time.
C26_Ready ==
    [][Transition({SUSPENDED, RUNNING, STARTED}, READY) =>
        /\ ~crashed'
        /\ After.state = READY
        /\ After.state_changed_at = Notification.at
        /\ After.markers =
              IF Before.state = SUSPENDED
              THEN Append(Before.markers,
                          [type |-> MARKER_THREAD_SUSPENDED,
                           phase |-> INTERVAL,
                           timestamp |-> Before.state_changed_at,
                           finish |-> Notification.at,
                           stack_index |-> Before.stack_on_suspend_idx])
              ELSE IF Before.state = RUNNING
              THEN Append(Before.markers,
                          IntervalMarker(MARKER_THREAD_RUNNING,
                                         Before.state_changed_at,
                                         Notification.at))
              ELSE Before.markers
      ]_vars

\* a running thread was suspended on a stack of the tree and became READY
\* some time later: its last marker is the "suspended" one, with that stack
C26_Witness ==
    /\ StatesFed = <<RUNNING, SUSPENDED, READY>>
    /\ fed[2].index >= 0
    /\ fed[3].at # fed[2].at
    /\ thread_table[1].state = READY
    /\ Len(thread_table[1].markers) = 2
    /\ thread_table[1].markers[2].type = MARKER_THREAD_SUSPENDED
    /\ thread_table[1].markers[2].stack_index = fed[2].index

\* the notifications since which the record has been SUSPENDED: a SUSPENDED
\* and after it nothing but SUSPENDED and STARTED
SuspendedSince ==
    {k \in 1..Len(fed) :
        /\ fed[k].state = SUSPENDED
        /\ \A j \in k..Len(fed) : fed[j].state \in {SUSPENDED, STARTED}}

\* the notification that suspended the thread
Suspension == CHOOSE k \in SuspendedSince : \A j \in SuspendedSince : k <= j

\* C27: a SUSPENDED notification for a thread in state RUNNING or STARTED
\* stores the tree index of the stack sampled at the notification as the
\* stack-index-at-suspend of the record, appends one "running" interval
\* marker from the previous state-changed-at to the time of the transition
\* and sets the state to SUSPENDED; the next "suspended" interval marker of
\* the thread carries the index stored at that notification.
C27_Suspended ==
    /\ [][Transition({RUNNING, STARTED}, SUSPENDED) =>
            /\ ~crashed'
            /\ After.stack_on_suspend_idx = Notification.index
            /\ After.state = SUSPENDED
            /\ After.markers =
                  Append(Before.markers,
                         IntervalMarker(MARKER_THREAD_RUNNING,
                                        Before.state_changed_at,
                                        Notification.at))
         ]_vars
    /\ [][(/\ Transition({SUSPENDED}, READY)
           /\ SuspendedSince # {}
           /\ Suspension > 1)
          => After.markers[Len(After.markers)].stack_index
                = fed[Suspension].index
         ]_vars

\* C28: a STOPPED notification for a thread in state RUNNING, STARTED or
\* SUSPENDED appends a "running" interval marker from the previous
\* state-changed-at to the time of the transition and, after it, an
\* instantaneous "thread exited" marker, records that time as the stop
\* timestamp and sets the state to STOPPED.
C28_Stopped ==
    [][Transition({RUNNING, STARTED, SUSPENDED}, STOPPED) =>
        /\ ~crashed'
        /\ After.state = STOPPED
        /\ After.stopped_at = Notification.at
        /\ Len(After.markers) = Len(Before.markers) + 2
        /\ SubSeq(After.markers, 1, Len(Before.markers) + 1) =
              Append(Before.markers,
                     IntervalMarker(MARKER_THREAD_RUNNING,
                                    Before.state_changed_at, Notification.at))
        /\ After.markers[Len(After.markers)].type = MARKER_GVL_THREAD_EXITED
        /\ After.markers[Len(After.markers)].phase = INSTANT
      ]_vars

\* a started thread ran, was suspended and exited some time later
C28_Witness ==
    /\ StatesFed = <<STARTED, SUSPENDED, STOPPED>>
    /\ fed[3].at # fed[2].at
    /\ thread_table[1].state = STOPPED
    /\ thread_table[1].stopped_at = fed[3].at
    /\ Len(thread_table[1].markers) = 4
    /\ thread_table[1].markers[4].type = MARKER_GVL_THREAD_EXITED

\* a notification that the asserts of Thread::set_state do not allow from
\* the state of the record
InvalidTransition ==
    \/ Transition({STARTED, SUSPENDED}, RUNNING)
    \/ Transition({READY}, READY)
    \/ Transition({READY}, SUSPENDED)
    \/ Transition({READY}, STOPPED)

\* C29: a RUNNING notification for a thread in state STARTED or SUSPENDED,
\* and a READY, SUSPENDED or STOPPED notification for a thread in state
\* READY, ends in a failed assertion, which ends the process; the state, the
\* timestamps and the marker table of the record are not changed.
C29_InvalidTransitionAsserts ==
    [][InvalidTransition =>
        /\ crashed'
        /\ After.state = Before.state
        /\ After.state_changed_at = Before.state_changed_at
        /\ After.started_at = Before.started_at
        /\ After.stopped_at = Before.stopped_at
        /\ After.markers = Before.markers
      ]_vars

\* a thread that is READY was notified SUSPENDED: the assertion has failed
C29_Witness ==
    /\ StatesFed = <<STARTED, READY, SUSPENDED>>
    /\ crashed
    /\ thread_table[1].state = READY

\* the marker is an instantaneous "thread started" one
IsStartedMarker(marker) ==
    /\ marker.type = MARKER_GVL_THREAD_STARTED
    /\ marker.phase = INSTANT

\* C30: a STARTED notification for a thread whose record is not STOPPED
\* appends one instantaneous "thread started" marker and leaves the state
\* and the state-changed-at of the record as they were; a STARTED
\* notification for a thread without a record creates the record in state
\* STARTED with exactly one marker, a "thread started" one.
C30_Started ==
    /\ [][(/\ thread_table # <<>>
           /\ Before.state # STOPPED
           /\ JustFed(STARTED))
          => /\ ~crashed'
             /\ Len(After.markers) = Len(Before.markers) + 1
             /\ SubSeq(After.markers, 1, Len(Before.markers)) = Before.markers
             /\ IsStartedMarker(After.markers[Len(After.markers)])
             /\ After.state = Before.state
             /\ After.state_changed_at = Before.state_changed_at
         ]_vars
    /\ [][(thread_table = <<>> /\ JustFed(STARTED))
          => /\ ~crashed'
             /\ Len(thread_table') = 1
             /\ After.ruby_thread = 1
             /\ After.state = STARTED
             /\ Len(After.markers) = 1
             /\ IsStartedMarker(After.markers[1])
         ]_vars

\* a thread was started, became READY and was notified STARTED once more,
\* some time later: it is still READY since the same instant, with two
\* "thread started" markers
C30_Witness ==
    /\ StatesFed = <<STARTED, READY, STARTED>>
    /\ fed[3].at # fed[2].at
    /\ thread_table[1].state = READY
    /\ thread_table[1].state_changed_at = fed[2].at
    /\ Cardinality(MarkersOf(thread_table[1].markers,
                             MARKER_GVL_THREAD_STARTED)) = 2

\* C31: every stack index that the sampler loop has stored in the sample
\* list of a thread, in category NORMAL or IDLE, is the index of a node of
\* the stack tree, and never the -1 of the root, whatever notifications the
\* thread was given: a SUSPENDED that sampled an empty or GC-flagged stack
\* and a SUSPENDED as the first notification included.
C31_StoredIndexIsNode ==
    \A i \in 1..Len(thread_table) :
        \A k \in 1..Len(thread_table[i].samples) :
            /\ thread_table[i].samples[k].stack >= 0
            /\ thread_table[i].samples[k].stack < Len(stack_node_list)


(***************************************************************************)
(* SpecRestart: one collector started, stopped and started again, on whole *)
(* thread records.  The hooks that deliver the lifecycle notifications are *)
(* installed by start() and removed by stop(), so notifications arrive     *)
(* only while the collector runs; base_running[c] is BaseCollector's       *)
(* running flag of the one collector c of this specification.              *)
(***************************************************************************)
\* at most this many calls of ThreadTable::set_state over all the sessions
MaxSessionEvents == 5

\* FrameList::clear(): the node list and the children of the root are emptied
FrameList_clear(fl) == [root |-> RootNode, list |-> <<>>]

\* translate reuses its cache up to the first position where the sample
\* differs, and then reads stack_node_list[frame_indexes[i - 1]]: this holds
\* when that element is beyond the end of the vector
reads_beyond_the_list(fl, tr, sample) ==
    \E i0 \in {ReusedPrefix(tr, sample, 0)} :
        /\ i0 > 0
        /\ tr.frame_indexes[i0 - 1] >= Len(fl.list)

\* the table as the call sees it when the element read beyond the end of
\* the vector happens to hold the contents of node n
ReadAs(list, pos, sample, n) ==
    LET i0 == ReusedPrefix(list[pos].translator, sample, 0)
    IN  [list EXCEPT ![pos].translator.frame_indexes[i0 - 1] = n]

\* TimeCollector::start(): BaseCollector::start() refuses a running
\* collector; then the calling thread th, which holds the GVL, is notified
\* as RUNNING through threads.resumed(rb_thread_current())
session_start(c, th) ==
    /\ ~crashed
    /\ ~base_running[c]
    /\ Len(fed) < MaxSessionEvents
    /\ base_running' = [base_running EXCEPT ![c] = TRUE]
    /\ notified(thread_table, th, RUNNING, EmptySample)

\* a lifecycle notification of thread th while the hooks of collector c are
\* installed.  A translate that reads beyond the end of stack_node_list has
\* undefined behaviour: the process crashes, or the call goes on with
\* whatever the element holds, here the contents of any node of the tree
session_event(c, th, new_state) ==
    /\ ~crashed
    /\ base_running[c]
    /\ Len(fed) < MaxSessionEvents
    /\ UNCHANGED base_running
    /\ \E sample \in SamplesAt(thread_table, th, new_state),
          pos \in {ThreadPos(thread_table, th)} :
          IF /\ new_state = SUSPENDED
             /\ pos # 0
             /\ reads_beyond_the_list(FL, thread_table[pos].translator, sample)
          THEN \/ /\ crashed' = TRUE
                  /\ fed' = Append(fed, [state |-> new_state, at |-> clock,
                                         index |-> -1])
                  /\ UNCHANGED <<treeVars, thread_table, signalVars, running,
                                 thread_stopped, hooks, threads, threads_mutex,
                                 frame_list, api, api_caller, api_result,
                                 samplerVars, vm_thread, historyVars, clock,
                                 sampleListVars, loopVars, gcVars, lockVars>>
               \/ \E n \in -1..(Len(stack_node_list) - 1) :
                      notified(ReadAs(thread_table, pos, sample, n), th,
                               new_state, sample)
          ELSE notified(thread_table, th, new_state, sample)

\* TimeCollector::stop() of a running collector: after the result is built,
\* reset() clears frame_list; threads.list and the translators of its
\* records are left as they are
session_stop(c) ==
    /\ ~crashed
    /\ base_running[c]
    /\ base_running' = [base_running EXCEPT ![c] = FALSE]
    /\ \E fl \in {FrameList_clear(FL)} :
          /\ root_stack_node' = fl.root
          /\ stack_node_list' = fl.list
    /\ UNCHANGED <<translator, returned, last_call, thread_table, fed, crashed,
                   signalVars, running, thread_stopped, hooks, threads,
                   threads_mutex, frame_list, api, api_caller, api_result,
                   samplerVars, vm_thread, historyVars, clock, sampleListVars,
                   loopVars, gcVars, lockVars>>

\* the collector that is started, stopped and started again
Restarted == CHOOSE c \in Collectors : TRUE

InitRestart == InitNoCollector

NextRestart ==
    \/ \E c \in {Restarted}, th \in RubyThreads : session_start(c, th)
    \/ \E c \in {Restarted}, th \in RubyThreads, s \in ThreadStates :
           session_event(c, th, s)
    \/ \E c \in {Restarted} : session_stop(c)

SpecRestart == InitRestart /\ [][NextRestart]_vars

\* C32: in every state, also after stop() and after a further start() of
\* the same collector, the cache of the translator of every thread record is
\* valid: for each position below len the cached index is the index of an
\* existing node of the stack tree, that node holds the cached frame of the
\* position, and its parent is the cached node of the position before, the
\* root for position 0.
C32_CacheValid ==
    \A i \in 1..Len(thread_table) :
        \A p \in 0..(thread_table[i].translator.len - 1) :
            \E idx \in {thread_table[i].translator.frame_indexes[p]} :
                /\ idx >= 0
                /\ idx < Len(stack_node_list)
                /\ FrameEq(stack_node_list[idx + 1].frame,
                           thread_table[i].translator.frames[p])
                /\ stack_node_list[idx + 1].parent =
                       IF p = 0 THEN -1
                       ELSE thread_table[i].translator.frame_indexes[p - 1]

\* C33: in every state of the thread table a record whose state is RUNNING
\* has a native thread handle other than 0, whatever the order of the
\* notifications, so assert(pthread_id) of
\* GlobalSignalHandler::record_sample holds for every thread the sampler
\* would signal.
C33_RunningHasHandle ==
    \A i \in 1..Len(thread_table) :
        thread_table[i].state = RUNNING => thread_table[i].pthread_id # 0

\* a record created in RUNNING state by start() that has since been notified
\* STARTED, and is RUNNING with its handle
C33_Witness ==
    /\ Len(fed) >= 2
    /\ fed[1].state = RUNNING
    /\ fed[2].state = STARTED
    /\ Len(thread_table) = 1
    /\ thread_table[1].state = RUNNING
    /\ thread_table[1].pthread_id # 0

\* the sampler thread of collector c exists: it was created and has not yet
\* posted thread_stopped
SamplerAlive(c) == sampler[c] \notin {"none", "exited"}

\* C34: for any interleaving of start() and stop() on the collectors, a
\* capture signal is sent only while the signal handler is registered: as
\* long as the sampler thread of a collector exists, that collector holds
\* its install, count is at least 1 and the handler is registered; the step
\* that sends the signal is taken with the handler registered, and a signal
\* that is pending or being handled finds it registered.
C34_SignalWhileRegistered ==
    /\ [](\A c \in Collectors :
            SamplerAlive(c) => (c \in installed /\ count >= 1 /\ Registered))
    /\ [](\A th \in RubyThreads :
            (pending[th] \/ handler[th] # 0) => Registered)
    /\ [][\A c \in Collectors :
            (sampler[c] = "kill" /\ sampler'[c] = "wait") =>
                (Registered /\ Registered' /\ count >= 1)]_vars

\* stop() on one collector has undone its install while the sampler of
\* another collector has sent a signal that is still pending
C34_Witness ==
    \E c, d \in Collectors :
        /\ c # d
        /\ api[c] = "remove_hooks"
        /\ c \notin installed
        /\ sampler[d] = "wait"
        /\ \E th \in RubyThreads : pending[th]
        /\ Registered

(***************************************************************************)
(* SpecLocks: the collectors of LiveSpec, with the lifecycle callbacks of  *)
(* a Ruby thread taken lock by lock.  For one event of the VM the thread   *)
(* calls internal_thread_event_cb once per collector whose hooks are       *)
(* added; each call waits for the ThreadTable mutex of its collector,      *)
(* takes it, runs Thread::set_state, which takes and releases the mutex of *)
(* the thread's MarkerTable when it records a marker, and releases it.     *)
(* SIGPROF can interrupt the thread at every one of these positions.       *)
(* callback[th].pc is "idle", or "lock" (waiting for the ThreadTable mutex *)
(* of collector callback[th].c), "set_state" (holding it), "marker"        *)
(* (holding it and the MarkerTable mutex) or "unlock" (holding it, the     *)
(* MarkerTable mutex released).                                            *)
(***************************************************************************)
CallbackUnchanged ==
    UNCHANGED <<treeVars, signalVars, base_running, running, thread_stopped,
                hooks, api, api_caller, api_result, samplerVars, crashed,
                historyVars, clock, sampleListVars, threadVars, loopVars,
                gcVars, table_mutex, set_state_call, marker_mutex, gc_call>>

\* the call for the next collector of todo, or the end of the event
NextCallback(event, todo) ==
    IF todo = {} THEN {NoCallback}
    ELSE { [pc |-> "lock", event |-> event, c |-> d, todo |-> todo \ {d}] :
             d \in todo }

\* Ruby thread th does what the VM reports as e.event, and the VM begins to
\* call the hooks
callback_begin(th, e) ==
    /\ ~crashed
    /\ vm_thread[th] = e.from
    /\ ~InCall(th)
    /\ handler[th] = 0
    /\ callback[th].pc = "idle"
    /\ vm_thread' = [vm_thread EXCEPT ![th] = e.to]
    /\ \E next \in NextCallback(e.event, {c \in Collectors : hooks[c]}) :
          callback' = [callback EXCEPT ![th] = next]
    /\ UNCHANGED <<threads, threads_mutex, frame_list>>
    /\ CallbackUnchanged

\* const std::lock_guard<std::mutex> lock(mutex) of ThreadTable::set_state
\* gets the mutex
callback_lock(th) ==
    /\ ~crashed
    /\ callback[th].pc = "lock"
    /\ handler[th] = 0
    /\ ~threads_mutex[callback[th].c]
    /\ threads_mutex' = [threads_mutex EXCEPT ![callback[th].c] = TRUE]
    /\ callback' = [callback EXCEPT ![th].pc = "set_state"]
    /\ UNCHANGED <<threads, frame_list, vm_thread>>
    /\ CallbackUnchanged

\* the body of ThreadTable::set_state up to the first marker: for SUSPENDED
\* the thread is sampled and the sample translated; whether
\* Thread::set_state, or Thread::Thread, records a marker depends on the
\* states and on the times, which this table leaves out
callback_set_state(th) ==
    /\ ~crashed
    /\ callback[th].pc = "set_state"
    /\ handler[th] = 0
    /\ \E c \in {callback[th].c} :
          /\ \E r \in {ThreadTable_set_state(threads[c], callback[th].event,
                                             th, th)} :
                /\ threads' = [threads EXCEPT ![c] = r.list]
                /\ crashed' = ~r.ok
          /\ \E kind \in SampleKinds :
                frame_list' = [frame_list EXCEPT ![c] =
                                  IF /\ callback[th].event = SUSPENDED
                                     /\ ThreadPos(threads[c], th) # 0
                                     /\ kind = "stack"
                                    THEN "interned" ELSE @]
    /\ \E records \in BOOLEAN :
          callback' = [callback EXCEPT ![th].pc =
                          IF records THEN "marker" ELSE "unlock"]
    /\ UNCHANGED <<treeVars, signalVars, base_running, running, thread_stopped,
                   hooks, threads_mutex, api, api_caller, api_result,
                   samplerVars, vm_thread, historyVars, clock, sampleListVars,
                   threadVars, loopVars, gcVars, table_mutex, set_state_call,
                   marker_mutex, gc_call>>

\* MarkerTable::record or record_interval: the push under the lock_guard of
\* the MarkerTable, which then goes out of scope
callback_marker(th) ==
    /\ ~crashed
    /\ callback[th].pc = "marker"
    /\ handler[th] = 0
    /\ callback' = [callback EXCEPT ![th].pc = "unlock"]
    /\ UNCHANGED <<threads, threads_mutex, frame_list, vm_thread>>
    /\ CallbackUnchanged

\* the lock_guard of ThreadTable::set_state goes out of scope; the VM calls
\* the hook of the next collector
callback_unlock(th) ==
    /\ ~crashed
    /\ callback[th].pc = "unlock"
    /\ handler[th] = 0
    /\ threads_mutex' = [threads_mutex EXCEPT ![callback[th].c] = FALSE]
    /\ \E next \in NextCallback(callback[th].event, callback[th].todo) :
          callback' = [callback EXCEPT ![th] = next]
    /\ UNCHANGED <<threads, frame_list, vm_thread>>
    /\ CallbackUnchanged

\* Ruby code runs, and calls start() or stop(), outside the hooks
OutsideCallbacks(th) == callback[th].pc = "idle"

NextLocks ==
    \/ \E c \in Collectors, th \in RubyThreads :
           OutsideCallbacks(th) /\ collector_start(c, th)
    \/ \E c \in Collectors : BaseCollector_start(c)
    \/ \E c \in Collectors : start_install(c)
    \/ \E c \in Collectors : start_pthread_create(c)
    \/ \E c \in Collectors : start_resumed(c)
    \/ \E c \in Collectors : start_add_hooks(c)
    \/ \E c \in Collectors, th \in RubyThreads :
           OutsideCallbacks(th) /\ collector_stop(c, th)
    \/ \E c \in Collectors : BaseCollector_stop(c)
    \/ \E c \in Collectors : stop_clear_running(c)
    \/ \E c \in Collectors : stop_wait(c)
    \/ \E c \in Collectors : stop_uninstall(c)
    \/ \E c \in Collectors : stop_remove_hooks(c)
    \/ \E c \in Collectors : stop_finalize(c)
    \/ \E c \in Collectors : stop_result(c)
    \/ \E c \in Collectors : sample_thread_loop(c)
    \/ \E c \in Collectors : sample_thread_tick(c)
    \/ \E c \in Collectors : sample_thread_for(c)
    \/ \E c \in Collectors : sample_thread_post(c)
    \/ \E c \in Collectors : record_sample_publish(c)
    \/ \E c \in Collectors : record_sample_kill(c)
    \/ \E c \in Collectors : record_sample_wait(c)
    \/ \E c \in Collectors : sample_thread_read(c)
    \/ \E th \in RubyThreads : signal_handler(th)
    \/ \E th \in RubyThreads : sample_current_thread_step(th)
    \/ \E th \in RubyThreads, e \in VmEvents : callback_begin(th, e)
    \/ \E th \in RubyThreads : callback_lock(th)
    \/ \E th \in RubyThreads : callback_set_state(th)
    \/ \E th \in RubyThreads : callback_marker(th)
    \/ \E th \in RubyThreads : callback_unlock(th)

SpecLocks == Init /\ [][NextLocks]_vars

\* LiveLocks: SpecLocks where the sampler threads, the signal handler and
\* stop() go on as in LiveSpec; a Ruby thread may stay in a callback for as
\* long as it likes
LiveLocks == Init /\ [][NextLocks]_vars /\ Fairness

\* thread th holds the ThreadTable mutex of a collector in a callback
InTable(th) == callback[th].pc \in {"set_state", "marker", "unlock"}

\* C35: no reachable state of a process that has not aborted is a deadlock;
\* the locks are taken in the order ThreadTable mutex, then coordinator
\* mutex or MarkerTable mutex: the coordinator mutex is held by a sampler
\* that holds the ThreadTable mutex of its collector and waits for no mutex
\* before it releases it, and the MarkerTable mutex by a thread that holds a
\* ThreadTable mutex; the signal handler takes no lock: it can begin and go
\* on whatever mutex is held; so every capture completes, whatever its
\* target thread holds or waits for.
C35_DeadlockFreedom ==
    /\ [](crashed \/ ENABLED NextLocks)
    /\ [](\A c \in Collectors :
            mutex = c => (threads_mutex[c] /\ sampler[c] \in {"kill", "wait"}))
    /\ [](\A th \in RubyThreads :
            callback[th].pc = "marker" => threads_mutex[callback[th].c])
    /\ [](\A th \in RubyThreads :
            ~crashed =>
               /\ pending[th] /\ handler[th] = 0 => ENABLED signal_handler(th)
               /\ handler[th] # 0 => ENABLED sample_current_thread_step(th))
    /\ \A c \in Collectors :
          (sampler[c] = "wait") ~> (sampler[c] = "read" \/ crashed)

\* the sampler of one collector waits for the capture of a thread that is
\* in the handler while it holds the ThreadTable mutex of another collector
\* and the MarkerTable mutex
C35_Witness ==
    \E th \in RubyThreads, d \in Collectors :
        /\ callback[th].pc = "marker"
        /\ callback[th].c # d
        /\ sampler[d] = "wait"
        /\ mutex = d
        /\ handler[th] # 0
        /\ handler_sample[th] = d

\* the positions of the interval markers in the marker table of a record
IntervalsOf(thread) ==
    {k \in 1..Len(thread.markers) : thread.markers[k].phase = INTERVAL}

\* C36: for every thread, each interval marker that the state transitions
\* have appended to its marker table starts no later than it ends, and
\* starts no earlier than the end of every interval marker appended before
\* it: the intervals of a thread do not overlap and are appended in time
\* order, whatever the sequence of notifications.
C36_IntervalsInOrder ==
    \A i \in 1..Len(thread_table) :
        \A k \in IntervalsOf(thread_table[i]) :
            /\ thread_table[i].markers[k].timestamp
                  <= thread_table[i].markers[k].finish
            /\ \A j \in IntervalsOf(thread_table[i]) :
                  j < k => thread_table[i].markers[j].finish
                              <= thread_table[i].markers[k].timestamp

\* a thread has two interval markers that both last some time
C36_Witness ==
    \E i \in 1..Len(thread_table) :
        \E j, k \in IntervalsOf(thread_table[i]) :
            /\ j < k
            /\ thread_table[i].markers[j].timestamp
                  < thread_table[i].markers[j].finish
            /\ thread_table[i].markers[k].timestamp
                  < thread_table[i].markers[k].finish

=============================================================================
